---- MODULE Spec2Model ----
(***************************************************************************)
(* Identity assignment for per-frame detections.                           *)
(*                                                                         *)
(*   Mapper         (mapping.py)     threshold-gated identity continuation *)
(*   MOT16          (eval_mot16.py)  the per-frame driver of the Mapper    *)
(*   DeepSORTMapper (sort.py)        track lifecycle on top of a cascade   *)
(*                                                                         *)
(* Floating point values are kept in fixed point: a length is counted in   *)
(* hundredths, a cost (a product of two lengths) in ten-thousandths.       *)
(***************************************************************************)
EXTENDS Integers, Sequences, FiniteSets, TLC

VARIABLES
    id_count,      \* Mapper.id_count
    ids,           \* Mapper.ids: row label -> identity
    prev_bboxes,   \* MOT16.prev_bboxes
    issued,        \* history: the identities _assign_id handed out, in order
    last,          \* history: what the most recent eval_frame call did
    presented,     \* history: row labels of the most recent set() that returned
    ever_presented,\* history: row labels of every set() that returned
    any_below,     \* history: some solver pair was below cost_thresh
    dets_seen,     \* history: detections mapped while ~any_below
    uses,          \* history: identity -> detections given it while ~any_below
    chain_broken,  \* history: set() was given a prev other than the last next,
                   \*          or the run is one where this is not followed
    ended,         \* history: identities some mapped frame had no detection for
    given,         \* history: row label -> identity, from the last set() that returned
    self_cost_thresh, \* Mapper.cost_thresh, as given to the constructor
    tracks,        \* DeepSORTMapper.tracks
    next_id,       \* DeepSORTMapper._next_id
    track_ids,     \* DeepSORTMapper.ids: track identity -> detection index
    n_init,        \* DeepSORTMapper.n_init
    max_age,       \* DeepSORTMapper.max_age
    nn_budget,     \* DeepSORTMapper.metric.budget
    samples,       \* DeepSORTMapper.metric.samples: track identity -> gallery
    created,       \* history: the identities of the tracks created, in order
    retired,       \* history: the identities of the tracks taken off the live set
    further,       \* history: live track identity -> matched updates since creation
    slast,         \* history: what the most recent DeepSORTMapper.set call did
    engine         \* which of the two engines this run has built

mapperVars == <<id_count, ids, prev_bboxes, issued, last, presented,
                ever_presented, any_below, dets_seen, uses, chain_broken,
                ended, given, self_cost_thresh>>

sortVars == <<tracks, next_id, track_ids, n_init, max_age, nn_budget, samples,
              created, retired, further, slast>>

vars == <<mapperVars, sortVars, engine>>

(***************************************************************************)
(* Bounds                                                                  *)
(***************************************************************************)
MaxDet == 2
MaxId == 3
MaxTrackId == 3
MaxTracks == 2
MaxHits == 3
MaxNInit == 3
MaxAge == 2
MaxDim == 3
MaxCells == 9
MaxBudget == 2
MaxThresh == 2

\* Mapper.__init__(affinity=lin_cost, cost_thresh=40000)
cost_thresh == 40000

(***************************************************************************)
(* Helpers                                                                 *)
(***************************************************************************)
Min(a, b) == IF a <= b THEN a ELSE b

Range(s) == {s[i] : i \in DOMAIN s}

RECURSIVE SqrtSearch(_, _, _)
SqrtSearch(n, lo, hi) ==
    IF lo >= hi THEN lo
    ELSE LET mid == (lo + hi + 1) \div 2
         IN  IF mid * mid <= n THEN SqrtSearch(n, mid, hi)
                               ELSE SqrtSearch(n, lo, mid - 1)

\* np.sqrt of an integer, in hundredths
sqrt(n) == SqrtSearch(n * 10000, 0, 46340)

(***************************************************************************)
(* Detections                                                              *)
(***************************************************************************)
BoxA  == [left |-> 100, top |-> 100, right |-> 300, bot |-> 200]
BoxA2 == [left |-> 105, top |-> 102, right |-> 302, bot |-> 201]
BoxX  == [left |-> 100, top |-> 300, right |-> 500, bot |-> 400]

Boxes == {BoxA, BoxA2, BoxX}

\* boxes on a grid: three corners, near and far from each other, and three
\* sizes
Corners == {<<0, 0>>, <<3, 4>>, <<240, 320>>}

Sizes == {<<10, 20>>, <<13, 24>>, <<70, 100>>}

GridBoxes ==
    {[left |-> c[1], top |-> c[2], right |-> c[1] + z[1], bot |-> c[2] + z[2]] :
        c \in Corners, z \in Sizes}

\* pd.DataFrame({...}): rows labelled 0..n-1
DataFrame(bs) ==
    [i \in 1..Len(bs) |-> [Index |-> i - 1, left |-> bs[i].left,
                           top |-> bs[i].top, right |-> bs[i].right,
                           bot |-> bs[i].bot]]

\* bbox.query("prob > thresh"): the rows at the positions of keep, labels kept
query(frame, keep) == SelectSeq(frame, LAMBDA r : (r.Index + 1) \in keep)

\* the boxes of one frame: up to MaxDet detections, no box twice
BoxLists ==
    UNION {{bs \in [1..n -> Boxes] :
               \A i \in 1..n : \A j \in 1..n : i # j => bs[i] # bs[j]} :
           n \in 0..MaxDet}

Frames ==
    {query(DataFrame(bs), keep) : bs \in BoxLists,
                                  keep \in SUBSET (1..MaxDet)}

Labels(frame) == {frame[i].Index : i \in DOMAIN frame}

(***************************************************************************)
(* CostModel                                                               *)
(***************************************************************************)
convert_bbox(bbox) ==
    [left |-> bbox.left, top |-> bbox.top,
     width |-> bbox.right - bbox.left, height |-> bbox.bot - bbox.top]

position_cost(a, b) ==
    sqrt((a.left - b.left) * (a.left - b.left)
         + (a.top - b.top) * (a.top - b.top))

shape_cost(a, b) ==
    sqrt((a.width - b.width) * (a.width - b.width)
         + (a.height - b.height) * (a.height - b.height))

\* mutant: the two distances are added
lin_cost_sum(next_bbox, prev_bbox) ==
    LET a == convert_bbox(next_bbox)
        b == convert_bbox(prev_bbox)
    IN  position_cost(a, b) + shape_cost(a, b)

lin_cost(next_bbox, prev_bbox) ==
    LET a == convert_bbox(next_bbox)
        b == convert_bbox(prev_bbox)
    IN  position_cost(a, b) * shape_cost(a, b)

\* the numpy index check of cost_matrix[src_bbox.Index, dst_bbox.Index]
calc_cost_in_range(src_bboxes, dst_bboxes) ==
    \/ src_bboxes = <<>>
    \/ dst_bboxes = <<>>
    \/ /\ \A i \in DOMAIN src_bboxes : src_bboxes[i].Index < Len(src_bboxes)
       /\ \A j \in DOMAIN dst_bboxes : dst_bboxes[j].Index < Len(dst_bboxes)

Row(frame, label) == CHOOSE r \in Range(frame) : r.Index = label

BoxOf(bbox) == [left |-> bbox.left, top |-> bbox.top,
                right |-> bbox.right, bot |-> bbox.bot]

\* affinity(dst_bbox, src_bbox) for every pair of boxes, computed once
affinity ==
    LET f == [p \in (Boxes \cup GridBoxes) \X (Boxes \cup GridBoxes) |->
                 lin_cost(p[1], p[2])]
    IN  IF f = <<>> THEN f ELSE f

calc_cost(src_bboxes, dst_bboxes) ==
    [rc \in (0..(Len(src_bboxes) - 1)) \X (0..(Len(dst_bboxes) - 1)) |->
        affinity[<<BoxOf(Row(dst_bboxes, rc[2])),
                   BoxOf(Row(src_bboxes, rc[1]))>>]]

(***************************************************************************)
(* Assignment Solver (scipy.optimize.linear_sum_assignment)                *)
(***************************************************************************)
RECURSIVE SortedSeq(_)
SortedSeq(S) ==
    IF S = {} THEN <<>>
    ELSE LET x == CHOOSE x \in S : \A y \in S : x <= y
         IN  <<x>> \o SortedSeq(S \ {x})

\* the total cost of the pairs of one answer, from its i-th pair on
RECURSIVE SumFrom(_, _, _)
SumFrom(cost_matrix, sol, i) ==
    IF i > Len(sol.row_idx) THEN 0
    ELSE cost_matrix[<<sol.row_idx[i], sol.col_idx[i]>>]
            + SumFrom(cost_matrix, sol, i + 1)

SumCost(cost_matrix, sol) == SumFrom(cost_matrix, sol, 1)

\* the most rows a cost matrix has: a frame's detections or the live tracks
MaxRows == IF MaxTracks > MaxDet THEN MaxTracks ELSE MaxDet

\* the most rows or columns of a matrix handed to the solver
MaxSide == IF MaxDim > MaxRows THEN MaxDim ELSE MaxRows

\* the sets of min(R, C) pairs that use each row and each column at most once
Matchings ==
    LET f == [rc \in (0..MaxSide) \X (0..MaxSide) |->
                {m \in SUBSET ((0..(rc[1] - 1)) \X (0..(rc[2] - 1))) :
                    /\ Cardinality(m) = Min(rc[1], rc[2])
                    /\ \A p \in m : \A q \in m :
                          p # q => (p[1] # q[1] /\ p[2] # q[2])}]
    IN  IF f = <<>> THEN f ELSE f

\* row_ind (sorted) and col_ind of one matching
Indices(m) ==
    LET rows == SortedSeq({p[1] : p \in m})
    IN  [row_idx |-> rows,
         col_idx |-> [i \in DOMAIN rows |->
                         (CHOOSE p \in m : p[1] = rows[i])[2]]]

RECURSIVE SeqOf(_)
SeqOf(S) ==
    IF S = {} THEN <<>>
    ELSE LET x == CHOOSE x \in S : TRUE
         IN  <<x>> \o SeqOf(S \ {x})

\* the answers open to the solver for R rows and C columns, listed
Assignments ==
    LET f == [rc \in (0..MaxSide) \X (0..MaxSide) |->
                SeqOf({Indices(m) : m \in Matchings[rc]})]
    IN  IF f = <<>> THEN f ELSE f

\* mutant: the solver takes the first answer open to it
first_assignment(cost_matrix, R, C) == {Assignments[<<R, C>>][1]}

\* every answer the solver may give: the matchings of least total cost
linear_sum_assignment(cost_matrix, R, C) ==
    LET sols == Assignments[<<R, C>>]
        t == [i \in DOMAIN sols |-> SumCost(cost_matrix, sols[i])]
        total == IF t = <<>> THEN t ELSE t
        best == CHOOSE i \in DOMAIN sols :
                    \A j \in DOMAIN sols : total[i] <= total[j]
    IN  {sols[i] : i \in {i \in DOMAIN sols : total[i] = total[best]}}

(***************************************************************************)
(* Mapper                                                                  *)
(***************************************************************************)
\* mutant: the counter is not advanced
assign_id_stuck(count) == [new_id |-> count, id_count |-> count]

assign_id(count) == [new_id |-> count, id_count |-> count + 1]

\* mutant: a cost equal to the threshold is let through
below_thresh_le(trans_cost) == trans_cost <= self_cost_thresh * 10000

\* mutant: the comparison is turned around
below_thresh_flipped(trans_cost) == trans_cost > self_cost_thresh * 10000

\* trans_cost < self.cost_thresh
below_thresh(trans_cost) == trans_cost < self_cost_thresh * 10000

\* mutant: the fresh identity is stored but the advanced counter is dropped
give_fresh_stale(acc, label) ==
    LET a == assign_id(acc.id_count)
    IN  [acc EXCEPT !.id_map = (label :> a.new_id) @@ @,
                    !.fresh = Append(@, a.new_id)]

give_fresh(acc, label) ==
    LET a == assign_id(acc.id_count)
    IN  [acc EXCEPT !.id_map = (label :> a.new_id) @@ @,
                    !.id_count = a.id_count,
                    !.fresh = Append(@, a.new_id)]

\* mutant: the table is read at the column of the solver's pair
read_key_col(sol, arg_idx) == sol.col_idx[arg_idx]

\* self.ids[row_idx[arg_idx]]: the table is read at the row of the pair
read_key(sol, arg_idx) == sol.row_idx[arg_idx]

\* the body of the loop over next_bboxes.itertuples(), from row k on; reads
\* is the history of the keys at which the table was read
RECURSIVE set_loop(_, _, _, _, _, _)
set_loop(k, next_bboxes, sol, cost_matrix, table, acc) ==
    IF k > Len(next_bboxes) \/ acc.raised # "none" THEN acc
    ELSE
      LET label == next_bboxes[k].Index
          where == {i \in DOMAIN sol.col_idx : sol.col_idx[i] = label}
          step ==
            IF where # {}
            THEN LET arg_idx == CHOOSE i \in where : \A j \in where : i <= j
                     trans_cost ==
                        cost_matrix[<<sol.row_idx[arg_idx], sol.col_idx[arg_idx]>>]
                 IN  IF below_thresh(trans_cost)
                     THEN IF read_key(sol, arg_idx) \in DOMAIN table
                          THEN [acc EXCEPT !.id_map =
                                  (label :> table[read_key(sol, arg_idx)]) @@ @,
                                !.reads = Append(@, read_key(sol, arg_idx))]
                          ELSE [acc EXCEPT !.raised = "KeyError"]
                     ELSE give_fresh(acc, label)
            ELSE give_fresh(acc, label)
      IN  set_loop(k + 1, next_bboxes, sol, cost_matrix, table, step)

\* mutant: the frame's identities are never merged into the table
update_ids_lost(table, id_map) == table

\* mutant: the table is replaced by the frame's identities
update_ids_replace(table, id_map) == id_map

\* self.ids.update(id_map)
update_ids(table, id_map) == id_map @@ table

\* what the solver may answer in set(); calc_cost raises before it is called
Solutions(next_bboxes, prev) ==
    IF calc_cost_in_range(prev, next_bboxes)
    THEN linear_sum_assignment(calc_cost(prev, next_bboxes),
                               Len(prev), Len(next_bboxes))
    ELSE {[row_idx |-> <<>>, col_idx |-> <<>>]}

\* Mapper.set(next_bboxes, prev) on the table and the counter given
set(next_bboxes, prev, sol, table, count) ==
    IF ~calc_cost_in_range(prev, next_bboxes)
    THEN [raised |-> "IndexError", id_count |-> count, ids |-> table,
          id_map |-> <<>>, fresh |-> <<>>, reads |-> <<>>]
    ELSE LET acc == set_loop(1, next_bboxes, sol,
                             calc_cost(prev, next_bboxes), table,
                             [id_map |-> <<>>, id_count |-> count,
                              fresh |-> <<>>, raised |-> "none",
                              reads |-> <<>>])
         IN  [raised |-> acc.raised, id_count |-> acc.id_count,
              ids |-> IF acc.raised = "none" THEN update_ids(table, acc.id_map)
                                              ELSE table,
              id_map |-> acc.id_map, fresh |-> acc.fresh,
              reads |-> acc.reads]

\* Mapper.get(bbox) for the rows of bboxes in turn, up to the first KeyError
RECURSIVE get_loop(_, _, _)
get_loop(k, bboxes, table) ==
    IF k > Len(bboxes) THEN <<>>
    ELSE IF bboxes[k].Index \in DOMAIN table
         THEN <<[Index |-> bboxes[k].Index, obj_id |-> table[bboxes[k].Index],
                 raised |-> FALSE]>> \o get_loop(k + 1, bboxes, table)
         ELSE <<[Index |-> bboxes[k].Index, obj_id |-> 0, raised |-> TRUE]>>

(***************************************************************************)
(* MOT16.eval_frame: the driver of the Mapper                              *)
(***************************************************************************)
\* the Mapper after construction, next to an unused DeepSORTMapper
MapperInit ==
    /\ id_count = 1
    /\ ids = <<>>
    /\ prev_bboxes = <<>>
    /\ issued = <<>>
    /\ last = [op |-> "idle"]
    /\ presented = {}
    /\ ever_presented = {}
    /\ any_below = FALSE
    /\ dets_seen = 0
    /\ uses = [i \in 1..MaxId |-> 0]
    /\ chain_broken = TRUE
    /\ ended = {}
    /\ given = <<>>
    /\ self_cost_thresh = cost_thresh
    /\ tracks = <<>>
    /\ next_id = 1
    /\ track_ids = <<>>
    /\ n_init = 3
    /\ max_age = 30
    /\ nn_budget = 100
    /\ samples = <<>>
    /\ created = <<>>
    /\ retired = {}
    /\ further = [i \in 1..MaxTrackId |-> 0]
    /\ slast = [op |-> "idle"]
    /\ engine = "Mapper"

\* history: the cost of the solver's i-th pair, from the boxes at those places
PairCost(next_bboxes, prev, sol, i) ==
    affinity[<<BoxOf(next_bboxes[sol.col_idx[i] + 1]),
               BoxOf(prev[sol.row_idx[i] + 1])>>]

\* history: the solver pairs of a set() call that are below cost_thresh
PairsBelow(next_bboxes, prev, sol) ==
    {i \in DOMAIN sol.col_idx :
        PairCost(next_bboxes, prev, sol, i) < self_cost_thresh * 10000}

\* mutant: a frame that is not mapped empties the table
no_set_cleared(table, count) ==
    [raised |-> "none", id_count |-> count, ids |-> <<>>,
     id_map |-> <<>>, fresh |-> <<>>, reads |-> <<>>]

\* eval_frame with do_mapping = False: set is not called
no_set(table, count) ==
    [raised |-> "none", id_count |-> count, ids |-> table,
     id_map |-> <<>>, fresh |-> <<>>, reads |-> <<>>]

eval_frame(bboxes, do_mapping) ==
    /\ last.op = "idle"
    /\ \E sol \in IF do_mapping THEN Solutions(bboxes, prev_bboxes)
                                ELSE {[row_idx |-> <<>>, col_idx |-> <<>>]} :
       \E s \in {IF do_mapping
                 THEN set(bboxes, prev_bboxes, sol, ids, id_count)
                 ELSE no_set(ids, id_count)} :
       \E gets \in {IF s.raised = "none" THEN get_loop(1, bboxes, s.ids)
                                          ELSE <<>>} :
       \E get_raised \in {\E i \in DOMAIN gets : gets[i].raised} :
       \E mapped \in {do_mapping /\ s.raised = "none"} :
       \E below \in {mapped /\ PairsBelow(bboxes, prev_bboxes, sol) # {}} :
       \E broken \in {chain_broken
                       \/ (do_mapping /\ Labels(prev_bboxes) # presented)} :
            /\ s.id_count <= MaxId + 1
            /\ id_count' = s.id_count
            /\ ids' = s.ids
            /\ prev_bboxes' = IF s.raised = "none" /\ ~get_raised
                              THEN bboxes ELSE prev_bboxes
            /\ issued' = issued \o s.fresh
            /\ last' = [op |-> "eval_frame", do_mapping |-> do_mapping,
                        next |-> bboxes, prev |-> prev_bboxes,
                        before |-> ids, count |-> id_count, sol |-> sol,
                        raised |-> IF s.raised # "none" THEN s.raised
                                   ELSE IF get_raised THEN "KeyError"
                                   ELSE "none",
                        set_returned |-> mapped,
                        id_map |-> s.id_map, fresh |-> s.fresh,
                        reads |-> s.reads, presented |-> presented,
                        ended |-> ended,
                        gets |-> gets]
            /\ presented' = IF mapped THEN Labels(bboxes) ELSE presented
            /\ ever_presented' = IF mapped
                                 THEN ever_presented \cup Labels(bboxes)
                                 ELSE ever_presented
            /\ any_below' = (any_below \/ below)
            /\ dets_seen' = IF any_below \/ below THEN 0
                            ELSE IF mapped THEN dets_seen + Len(bboxes)
                            ELSE dets_seen
            /\ uses' = IF any_below \/ below THEN [i \in 1..MaxId |-> 0]
                       ELSE IF mapped
                       THEN [i \in 1..MaxId |->
                               Min(2, uses[i] + Cardinality(
                                   {l \in DOMAIN s.id_map : s.id_map[l] = i}))]
                       ELSE uses
            /\ given' = IF mapped THEN s.id_map ELSE given
            /\ UNCHANGED self_cost_thresh
            /\ chain_broken' = broken
            /\ ended' = IF broken THEN {}
                         ELSE IF mapped
                         THEN ended \cup ((1..(s.id_count - 1))
                                             \ Range(s.id_map))
                         ELSE ended
            /\ UNCHANGED sortVars
            /\ UNCHANGED engine

\* the driver's loop goes on to the next frame: the call's record is dropped
next_frame ==
    /\ last.op = "eval_frame"
    /\ last' = [op |-> "idle"]
    /\ UNCHANGED <<id_count, ids, prev_bboxes, issued, presented,
                   ever_presented, any_below, dets_seen, uses, chain_broken,
                   ended, given, self_cost_thresh>>
    /\ UNCHANGED sortVars
    /\ UNCHANGED engine

MapperNext ==
    \/ \E bboxes \in Frames, do_mapping \in BOOLEAN :
          eval_frame(bboxes, do_mapping)
    \/ next_frame

MapperSpec == MapperInit /\ [][MapperNext]_vars

\* the same Mapper, in a run that follows which identities a mapped frame
\* left without a detection for as long as each set() call's prev is the
\* next of the call before it
ChainInit ==
    /\ id_count = 1
    /\ ids = <<>>
    /\ prev_bboxes = <<>>
    /\ issued = <<>>
    /\ last = [op |-> "idle"]
    /\ presented = {}
    /\ ever_presented = {}
    /\ any_below = FALSE
    /\ dets_seen = 0
    /\ uses = [i \in 1..MaxId |-> 0]
    /\ chain_broken = FALSE
    /\ ended = {}
    /\ given = <<>>
    /\ self_cost_thresh = cost_thresh
    /\ tracks = <<>>
    /\ next_id = 1
    /\ track_ids = <<>>
    /\ n_init = 3
    /\ max_age = 30
    /\ nn_budget = 100
    /\ samples = <<>>
    /\ created = <<>>
    /\ retired = {}
    /\ further = [i \in 1..MaxTrackId |-> 0]
    /\ slast = [op |-> "idle"]
    /\ engine = "Mapper"

ChainSpec == ChainInit /\ [][MapperNext]_vars

(***************************************************************************)
(* A Mapper built with any of a few positive cost_thresh, given frames of  *)
(* one detection whose box is on the grid                                  *)
(***************************************************************************)
\* the thresholds the constructor is given: small ones and the default
Thresholds == (1..MaxThresh) \cup {cost_thresh}

CostFrames == {DataFrame(<<b>>) : b \in GridBoxes} \cup {<<>>}

CostInit ==
    /\ id_count = 1
    /\ ids = <<>>
    /\ prev_bboxes = <<>>
    /\ issued = <<>>
    /\ last = [op |-> "idle"]
    /\ presented = {}
    /\ ever_presented = {}
    /\ any_below = FALSE
    /\ dets_seen = 0
    /\ uses = [i \in 1..MaxId |-> 0]
    /\ chain_broken = TRUE
    /\ ended = {}
    /\ given = <<>>
    /\ self_cost_thresh \in Thresholds
    /\ tracks = <<>>
    /\ next_id = 1
    /\ track_ids = <<>>
    /\ n_init = 3
    /\ max_age = 30
    /\ nn_budget = 100
    /\ samples = <<>>
    /\ created = <<>>
    /\ retired = {}
    /\ further = [i \in 1..MaxTrackId |-> 0]
    /\ slast = [op |-> "idle"]
    /\ engine = "Mapper"

CostNext ==
    \/ \E bboxes \in CostFrames : eval_frame(bboxes, TRUE)
    \/ next_frame

CostSpec == CostInit /\ [][CostNext]_vars

(***************************************************************************)
(* deep_sort.track.Track: hit count, time_since_update, lifecycle state,    *)
(* and the features not yet handed to the metric.  A feature is named by   *)
(* the place of its detection among those the track was given: 1 for the   *)
(* detection that created the track, 2 for its first matched one, ...      *)
(***************************************************************************)
Track(track_id, n, age) ==
    [track_id |-> track_id, hits |-> 1, time_since_update |-> 0,
     state |-> "Tentative", n_init |-> n, max_age |-> age, features |-> <<1>>]

is_confirmed(t) == t.state = "Confirmed"

is_deleted(t) == t.state = "Deleted"

\* time_since_update increments by exactly 1 on every predict()
Track_predict(t) == [t EXCEPT !.time_since_update = @ + 1]

\* a hit: time_since_update resets to 0; Confirmed after n_init hits
Track_update(t) ==
    [t EXCEPT !.hits = @ + 1,
              !.features = Append(@, t.hits + 1),
              !.time_since_update = 0,
              !.state = IF @ = "Tentative" /\ t.hits + 1 >= t.n_init
                        THEN "Confirmed" ELSE @]

\* a miss: delete if Tentative; delete if time_since_update > max_age
mark_missed(t) ==
    [t EXCEPT !.state = IF @ = "Tentative" THEN "Deleted"
                        ELSE IF t.time_since_update > t.max_age THEN "Deleted"
                        ELSE @]

(***************************************************************************)
(* deep_sort.linear_assignment: costs are counted in tenths                *)
(***************************************************************************)
\* DeepSORTMapper.__init__(max_iou_distance=0.7, max_cosine_distance=0.2)
max_iou_distance == 7
matching_threshold == 2

\* the effectively infinite value of a gated entry
INFTY_COST == 100000

\* a cost at or above the threshold is non-assignable
gate(cost, max_distance) == IF cost >= max_distance THEN INFTY_COST ELSE cost

Positions(n) == [k \in 1..n |-> k]

\* what one answer of the solver leaves after the gate
match_result(sol, gated, max_distance, track_indices, detection_indices) ==
    LET kept == SelectSeq(Positions(Len(sol.row_idx)), LAMBDA i :
                    gated[<<sol.row_idx[i], sol.col_idx[i]>>] < max_distance)
        matches == [i \in DOMAIN kept |->
                       <<track_indices[sol.row_idx[kept[i]] + 1],
                         detection_indices[sol.col_idx[kept[i]] + 1]>>]
    IN  [matches |-> matches,
         unmatched_tracks |-> SelectSeq(track_indices, LAMBDA k :
             \A i \in DOMAIN matches : matches[i][1] # k),
         unmatched_detections |-> SelectSeq(detection_indices, LAMBDA d :
             \A i \in DOMAIN matches : matches[i][2] # d)]

\* one matching stage: the costs of the listed tracks and detections go
\* through the gate and the solver; every answer the solver may give
min_cost_matching(cost_matrix, max_distance, track_indices, detection_indices) ==
    IF Len(track_indices) = 0 \/ Len(detection_indices) = 0
    THEN {[matches |-> <<>>, unmatched_tracks |-> track_indices,
           unmatched_detections |-> detection_indices]}
    ELSE LET R == Len(track_indices)
             C == Len(detection_indices)
             g == [rc \in (0..(R - 1)) \X (0..(C - 1)) |->
                     gate(cost_matrix[<<track_indices[rc[1] + 1],
                                        detection_indices[rc[2] + 1]>>],
                          max_distance)]
             gated == IF g = <<>> THEN g ELSE g
         IN  {match_result(sol, gated, max_distance, track_indices,
                           detection_indices) :
                 sol \in linear_sum_assignment(gated, R, C)}

\* the sets of pairs that use each of r rows and c columns at most once
PartialMatchings ==
    LET f == [rc \in (0..MaxRows) \X (0..MaxDet) |->
                {m \in SUBSET ((1..rc[1]) \X (1..rc[2])) :
                    \A p \in m : \A q \in m :
                        p # q => (p[1] # q[1] /\ p[2] # q[2])}]
    IN  IF f = <<>> THEN f ELSE f

\* the cost matrices a frame may give the listed tracks and detections: a
\* track is near at most one detection and a detection near at most one
\* track, and a track whose hits are at the bound is near none; far gives
\* the cost of each pair that is not near
CostChoices(trks, track_indices, detection_indices, near, far) ==
    {[c \in Range(track_indices) \X Range(detection_indices) |->
         IF \E q \in m : /\ track_indices[q[1]] = c[1]
                         /\ detection_indices[q[2]] = c[2]
         THEN near ELSE far[c]] :
        m \in {m \in PartialMatchings[<<Len(track_indices),
                                        Len(detection_indices)>>] :
                  \A q \in m : trks[track_indices[q[1]]].hits < MaxHits}}

\* the appearance cost of a pair that is not near: by the pair's place, the
\* Mahalanobis gate's infinite value, 0.2 (at the threshold) or 0.5
AppFar ==
    LET f == [c \in (1..MaxRows) \X (0..(MaxDet - 1)) |->
                 <<INFTY_COST, INFTY_COST, matching_threshold, 5>>
                     [((2 * (c[1] - 1) + c[2]) % 4) + 1]]
    IN  IF f = <<>> THEN f ELSE f

\* the IOU cost of a pair that is not near: by the pair's place, 1.0
\* (IOU 0.0) or 0.7 (at the threshold)
IouFar ==
    LET f == [c \in (1..MaxRows) \X (0..(MaxDet - 1)) |->
                 <<10, max_iou_distance>>[((c[1] + c[2]) % 2) + 1]]
    IN  IF f = <<>> THEN f ELSE f

\* the appearance cost after the Mahalanobis gate: 0.1 for a near pair
gated_metric(trks, track_indices, detection_indices) ==
    CostChoices(trks, track_indices, detection_indices, 1, AppFar)

\* the cost 1 - IOU: 0.1 (IOU 0.9) for a near pair
iou_cost(trks, track_indices, detection_indices) ==
    CostChoices(trks, track_indices, detection_indices, 1, IouFar)

\* the buckets of ascending time_since_update, 1 up to cascade_depth; each
\* bucket asks the metric for the costs of its tracks and the detections left
RECURSIVE cascade_loop(_, _, _, _, _, _)
cascade_loop(level, max_distance, cascade_depth, trks, track_indices, acc) ==
    IF level >= cascade_depth \/ Len(acc.unmatched_detections) = 0
    THEN {acc}
    ELSE LET bucket == SelectSeq(track_indices, LAMBDA k :
                           trks[k].time_since_update = 1 + level)
         IN  IF Len(bucket) = 0
             THEN cascade_loop(level + 1, max_distance, cascade_depth, trks,
                               track_indices, acc)
             ELSE UNION {UNION {
                     cascade_loop(level + 1, max_distance, cascade_depth,
                         trks, track_indices,
                         [matches |-> acc.matches \o r.matches,
                          unmatched_detections |-> r.unmatched_detections,
                          costs |-> cost_matrix @@ acc.costs]) :
                     r \in min_cost_matching(cost_matrix, max_distance,
                               bucket, acc.unmatched_detections)} :
                     cost_matrix \in gated_metric(trks, bucket,
                                        acc.unmatched_detections)}

\* costs is the history of the appearance costs the buckets were given
matching_cascade(max_distance, cascade_depth, trks, D, track_indices) ==
    {[matches |-> a.matches,
      unmatched_tracks |-> SelectSeq(track_indices, LAMBDA k :
          \A i \in DOMAIN a.matches : a.matches[i][1] # k),
      unmatched_detections |-> a.unmatched_detections,
      costs |-> a.costs] :
        a \in cascade_loop(0, max_distance, cascade_depth, trks,
                           track_indices,
                           [matches |-> <<>>,
                            unmatched_detections |-> [i \in 1..D |-> i - 1],
                            costs |-> <<>>])}

(***************************************************************************)
(* DeepSORTMapper (sort.py); a track index is a place in tracks, from 1    *)
(***************************************************************************)
\* mutant: no track is predicted
predict_none(trks) == trks

predict(trks) == [k \in DOMAIN trks |-> Track_predict(trks[k])]

\* mutant: every track the cascade left unmatched goes to the IOU stage
iou_track_candidates_all(trks, unconfirmed_tracks, unmatched_tracks_a) ==
    unconfirmed_tracks \o unmatched_tracks_a

iou_track_candidates(trks, unconfirmed_tracks, unmatched_tracks_a) ==
    unconfirmed_tracks \o SelectSeq(unmatched_tracks_a, LAMBDA k :
                              trks[k].time_since_update = 1)

\* mutant: the cascade is given one bucket more than max_age
match_a_deeper(trks, D, age) ==
    matching_cascade(matching_threshold, age + 1, trks, D,
        SelectSeq(Positions(Len(trks)), LAMBDA k : is_confirmed(trks[k])))

\* _match, first half: the Confirmed tracks go through the cascade
match_a(trks, D, age) ==
    matching_cascade(matching_threshold, age, trks, D,
        SelectSeq(Positions(Len(trks)), LAMBDA k : is_confirmed(trks[k])))

\* the tracks offered to the IOU stage after the cascade answered a
candidates(trks, a) ==
    iou_track_candidates(trks,
        SelectSeq(Positions(Len(trks)), LAMBDA k : ~is_confirmed(trks[k])),
        a.unmatched_tracks)

\* mutant: the IOU stage matches no Confirmed track
match_b_unconfirmed(trks, a, cost_matrix) ==
    {[matches |-> a.matches \o SelectSeq(b.matches, LAMBDA mt :
                                   ~is_confirmed(trks[mt[1]])),
      unmatched_tracks |-> SortedSeq(
          {k \in Range(a.unmatched_tracks) : trks[k].time_since_update # 1}
          \cup Range(b.unmatched_tracks)
          \cup {mt[1] : mt \in {mt \in Range(b.matches) :
                                   is_confirmed(trks[mt[1]])}}),
      unmatched_detections |-> SortedSeq(
          Range(b.unmatched_detections)
          \cup {mt[2] : mt \in {mt \in Range(b.matches) :
                                   is_confirmed(trks[mt[1]])}})] :
        b \in min_cost_matching(cost_matrix, max_iou_distance,
                  candidates(trks, a), a.unmatched_detections)}

\* mutant: the IOU stage keeps every pair the solver returns
match_b_ungated(trks, a, cost_matrix) ==
    {[matches |-> a.matches \o b.matches,
      unmatched_tracks |-> SortedSeq(
          {k \in Range(a.unmatched_tracks) : trks[k].time_since_update # 1}
          \cup Range(b.unmatched_tracks)),
      unmatched_detections |-> b.unmatched_detections] :
        b \in min_cost_matching(cost_matrix, INFTY_COST + 1,
                  candidates(trks, a), a.unmatched_detections)}

\* _match, second half: the IOU stage, and the three lists it returns
match_b(trks, a, cost_matrix) ==
    {[matches |-> a.matches \o b.matches,
      unmatched_tracks |-> SortedSeq(
          {k \in Range(a.unmatched_tracks) : trks[k].time_since_update # 1}
          \cup Range(b.unmatched_tracks)),
      unmatched_detections |-> b.unmatched_detections] :
        b \in min_cost_matching(cost_matrix, max_iou_distance,
                  candidates(trks, a), a.unmatched_detections)}

\* mutant: the matched tracks are updated but not bound to their detections
RECURSIVE update_matches_unbound(_, _, _)
update_matches_unbound(i, matches, acc) ==
    IF i > Len(matches) THEN acc
    ELSE update_matches_unbound(i + 1, matches,
             [acc EXCEPT !.tracks[matches[i][1]] = Track_update(@)])

\* for track_idx, detection_idx in matches
RECURSIVE update_matches(_, _, _)
update_matches(i, matches, acc) ==
    IF i > Len(matches) THEN acc
    ELSE LET track_idx == matches[i][1]
             detection_idx == matches[i][2]
             t == Track_update(acc.tracks[track_idx])
         IN  update_matches(i + 1, matches,
                 [acc EXCEPT !.tracks[track_idx] = t,
                             !.id_map = (t.track_id :> detection_idx) @@ @])

\* mutant: a missed track is left as it was
update_missed_skip(i, unmatched_tracks, table, acc) == acc

\* for track_idx in unmatched_tracks
RECURSIVE update_missed(_, _, _, _)
update_missed(i, unmatched_tracks, table, acc) ==
    IF i > Len(unmatched_tracks) THEN acc
    ELSE LET track_idx == unmatched_tracks[i]
             t == mark_missed(acc.tracks[track_idx])
             missed == [acc EXCEPT !.tracks[track_idx] = t]
         IN  IF is_confirmed(t) /\ t.time_since_update < 1
             THEN IF t.track_id \in DOMAIN table
                  THEN update_missed(i + 1, unmatched_tracks, table,
                           [missed EXCEPT !.id_map =
                               (t.track_id :> table[t.track_id]) @@ @])
                  ELSE [missed EXCEPT !.raised = "KeyError"]
             ELSE update_missed(i + 1, unmatched_tracks, table, missed)

\* mutant: _next_id is not advanced
initiate_track_same_id(acc, n, age) ==
    [acc EXCEPT !.tracks = Append(@, Track(acc.next_id, n, age)),
                !.fresh = Append(@, acc.next_id)]

\* mutant: n_init and max_age change places
initiate_track_swapped(acc, n, age) ==
    [acc EXCEPT !.tracks = Append(@, Track(acc.next_id, age, n)),
                !.next_id = @ + 1,
                !.fresh = Append(@, acc.next_id)]

\* _initiate_track; fresh is the history of the identities it used
initiate_track(acc, n, age) ==
    [acc EXCEPT !.tracks = Append(@, Track(acc.next_id, n, age)),
                !.next_id = @ + 1,
                !.fresh = Append(@, acc.next_id)]

\* for detection_idx in unmatched_detections
RECURSIVE update_new(_, _, _, _, _)
update_new(i, unmatched_detections, n, age, acc) ==
    IF i > Len(unmatched_detections) THEN acc
    ELSE update_new(i + 1, unmatched_detections, n, age,
             initiate_track(
                 [acc EXCEPT !.id_map =
                     (acc.next_id :> unmatched_detections[i]) @@ @],
                 n, age))

\* mutant: the Deleted tracks stay in the list
compact_none(trks) == trks

\* self.tracks = [t for t in self.tracks if not t.is_deleted()]
compact(trks) == SelectSeq(trks, LAMBDA t : ~is_deleted(t))

update(trks, table, count, m, n, age) ==
    LET a1 == update_matches(1, m.matches,
                  [tracks |-> trks, id_map |-> <<>>, next_id |-> count,
                   fresh |-> <<>>, raised |-> "none"])
        a2 == update_missed(1, m.unmatched_tracks, table, a1)
        a3 == update_new(1, m.unmatched_detections, n, age, a2)
    IN  IF a2.raised # "none"
        THEN [raised |-> a2.raised, tracks |-> a2.tracks, ids |-> table,
              next_id |-> count, fresh |-> <<>>]
        ELSE [raised |-> "none", tracks |-> compact(a3.tracks),
              ids |-> a3.id_map, next_id |-> a3.next_id, fresh |-> a3.fresh]

\* the newest n entries of a gallery, oldest first
Newest(gallery, n) ==
    IF Len(gallery) <= n THEN gallery
    ELSE SubSeq(gallery, Len(gallery) - n + 1, Len(gallery))

\* NearestNeighborDistanceMetric.partial_fit: each feature is appended to
\* its target's gallery, which then keeps its newest budget entries; at the
\* end the galleries of the targets that are not active are dropped
RECURSIVE partial_fit(_, _, _, _, _, _)
partial_fit(i, features, targets, active_targets, budget, gallery) ==
    IF i > Len(features)
    THEN [k \in DOMAIN gallery \cap active_targets |-> gallery[k]]
    ELSE LET old == IF targets[i] \in DOMAIN gallery
                    THEN gallery[targets[i]] ELSE <<>>
         IN  partial_fit(i + 1, features, targets, active_targets, budget,
                 (targets[i] :> Newest(Append(old, features[i]), budget))
                     @@ gallery)

\* mutant: the features of a track are collected newest first
RECURSIVE collect_newest_first(_, _)
collect_newest_first(k, acc) ==
    IF k > Len(acc.tracks) THEN acc
    ELSE IF ~is_confirmed(acc.tracks[k]) THEN collect_newest_first(k + 1, acc)
         ELSE collect_newest_first(k + 1,
                  [features |-> acc.features
                       \o [i \in DOMAIN acc.tracks[k].features |->
                              acc.tracks[k].features[
                                  Len(acc.tracks[k].features) + 1 - i]],
                   targets |-> acc.targets
                       \o [i \in DOMAIN acc.tracks[k].features |->
                              acc.tracks[k].track_id],
                   tracks |-> [acc.tracks EXCEPT ![k].features = <<>>]])

\* for track in self.tracks: the features of the Confirmed tracks are
\* collected, each with its track's identity, and taken from the tracks
RECURSIVE collect(_, _)
collect(k, acc) ==
    IF k > Len(acc.tracks) THEN acc
    ELSE IF ~is_confirmed(acc.tracks[k]) THEN collect(k + 1, acc)
         ELSE collect(k + 1,
                  [features |-> acc.features \o acc.tracks[k].features,
                   targets |-> acc.targets
                       \o [i \in DOMAIN acc.tracks[k].features |->
                              acc.tracks[k].track_id],
                   tracks |-> [acc.tracks EXCEPT ![k].features = <<>>]])

\* update, second half: the distance metric is given the collected features
update_metric(trks, gallery, budget) ==
    LET active_targets == {trks[k].track_id :
                              k \in {k \in DOMAIN trks : is_confirmed(trks[k])}}
        c == collect(1, [features |-> <<>>, targets |-> <<>>, tracks |-> trks])
    IN  [tracks |-> c.tracks,
         samples |-> partial_fit(1, c.features, c.targets, active_targets,
                                 budget, gallery)]

\* get: the (track_id, bbox_idx) pairs it yields, up to a failed lookup
RECURSIVE DeepSORTMapper_get(_, _, _)
DeepSORTMapper_get(k, trks, table) ==
    IF k > Len(trks) THEN <<>>
    ELSE IF ~is_confirmed(trks[k]) \/ trks[k].time_since_update >= 1
         THEN DeepSORTMapper_get(k + 1, trks, table)
         ELSE IF trks[k].track_id \in DOMAIN table
              THEN <<[track_id |-> trks[k].track_id,
                      bbox_idx |-> table[trks[k].track_id],
                      raised |-> FALSE]>>
                   \o DeepSORTMapper_get(k + 1, trks, table)
              ELSE <<[track_id |-> trks[k].track_id, bbox_idx |-> -1,
                      raised |-> TRUE]>>

(***************************************************************************)
(* DeepSORTMapper.set, called once per frame                               *)
(***************************************************************************)
\* the DeepSORTMapper after construction, next to an unused Mapper
SortInit ==
    /\ tracks = <<>>
    /\ next_id = 1
    /\ track_ids = <<>>
    /\ n_init \in 1..MaxNInit
    /\ max_age \in 0..MaxAge
    /\ nn_budget = 100
    /\ samples = <<>>
    /\ created = <<>>
    /\ retired = {}
    /\ further = [i \in 1..MaxTrackId |-> 0]
    /\ slast = [op |-> "idle"]
    /\ id_count = 1
    /\ ids = <<>>
    /\ prev_bboxes = <<>>
    /\ issued = <<>>
    /\ last = [op |-> "idle"]
    /\ presented = {}
    /\ ever_presented = {}
    /\ any_below = FALSE
    /\ dets_seen = 0
    /\ uses = [i \in 1..MaxId |-> 0]
    /\ chain_broken = TRUE
    /\ ended = {}
    /\ given = <<>>
    /\ self_cost_thresh = cost_thresh
    /\ engine = "DeepSORTMapper"

TrackIds(trks) == {trks[k].track_id : k \in DOMAIN trks}

\* the detections of the list that the gate keeps from every listed track
Unmatchable(cost_matrix, max_distance, track_indices, detection_indices) ==
    {d \in Range(detection_indices) : \A k \in Range(track_indices) :
        gate(cost_matrix[<<k, d>>], max_distance) = INFTY_COST}

\* an update that creates at least this many tracks can stay within the
\* bounds on identities and on live tracks
WithinBounds(trks, count, new) ==
    /\ count + new <= MaxTrackId + 1
    /\ Len(trks) + new <= MaxTracks
          + Cardinality({k \in DOMAIN trks : is_deleted(mark_missed(trks[k]))})

\* set: predict, then update with the D detections of the list it is given;
\* a call that is bound to leave the bounds is given up as soon as that shows
DeepSORTMapper_set(D) ==
    /\ slast.op = "idle"
    /\ Len(tracks) <= MaxTracks
    /\ \E p \in {predict(tracks)} :
       /\ WithinBounds(p, next_id, D - Len(p))
       /\ \E a \in match_a(p, D, max_age) :
          /\ WithinBounds(p, next_id, Len(a.unmatched_detections)
                                        - Len(candidates(p, a)))
          /\ \E cost_matrix \in iou_cost(p, candidates(p, a),
                                            a.unmatched_detections) :
             /\ WithinBounds(p, next_id, Cardinality(Unmatchable(cost_matrix,
                    max_iou_distance, candidates(p, a), a.unmatched_detections)))
             /\ \E m \in match_b(p, a, cost_matrix) :
                    /\ next_id + Len(m.unmatched_detections) <= MaxTrackId + 1
                    /\ Len(p) + Len(m.unmatched_detections) <= MaxTracks
                          + Cardinality({k \in Range(m.unmatched_tracks) :
                                            is_deleted(mark_missed(p[k]))})
                    /\ \A i \in DOMAIN m.matches : p[m.matches[i][1]].hits < MaxHits
                    /\ \E u \in {update(p, track_ids, next_id, m, n_init, max_age)} :
                       \E g \in {IF u.raised = "none"
                                 THEN update_metric(u.tracks, samples, nn_budget)
                                 ELSE [tracks |-> u.tracks, samples |-> samples]} :
                          /\ tracks' = g.tracks
                          /\ samples' = g.samples
                          /\ next_id' = u.next_id
                          /\ track_ids' = u.ids
                          /\ created' = created \o u.fresh
                          /\ retired' = retired \cup (TrackIds(p) \ TrackIds(u.tracks))
                          /\ further' = [i \in 1..MaxTrackId |->
                                IF i \notin TrackIds(u.tracks) THEN 0
                                ELSE IF \E j \in DOMAIN m.matches :
                                           p[m.matches[j][1]].track_id = i
                                     THEN further[i] + 1 ELSE further[i]]
                          /\ slast' = [op |-> "set", D |-> D, before |-> tracks,
                                       count |-> next_id, entry |-> p,
                                       gallery |-> samples,
                                       matches |-> m.matches,
                                       unmatched_tracks |-> m.unmatched_tracks,
                                       unmatched_detections |-> m.unmatched_detections,
                                       matches_a |-> a.matches,
                                       unmatched_tracks_a |-> a.unmatched_tracks,
                                       unmatched_detections_a |->
                                           a.unmatched_detections,
                                       candidates |-> candidates(p, a),
                                       app_cost |-> a.costs, iou_cost |-> cost_matrix,
                                       raised |-> u.raised]
                          /\ UNCHANGED <<n_init, max_age, nn_budget>>
                          /\ UNCHANGED mapperVars
                          /\ UNCHANGED engine

\* the frames the caller hands to get: rows of a picked frame that the
\* confidence filter kept, with the labels they had before the filter
DetBoxes == <<BoxA, BoxA2, BoxX>>

SortFrames ==
    {query(DataFrame(DetBoxes), keep) :
        keep \in {k \in SUBSET (1..Len(DetBoxes)) : Cardinality(k) <= MaxDet}}

\* get(bboxes): the (track_id, row) pairs yielded before the first lookup
\* that fails, bboxes.loc[bbox_idx] being a lookup by row label
get_rows(bboxes, trks, table) ==
    LET ys == DeepSORTMapper_get(1, trks, table)
        bad == {i \in DOMAIN ys :
                   ys[i].raised \/ ys[i].bbox_idx \notin Labels(bboxes)}
        n == IF bad = {} THEN Len(ys)
             ELSE (CHOOSE i \in bad : \A j \in bad : i <= j) - 1
    IN  [yields |-> [i \in 1..n |->
                        [track_id |-> ys[i].track_id,
                         bbox |-> Row(bboxes, ys[i].bbox_idx)]],
         raised |-> IF bad = {} THEN "none" ELSE "KeyError"]

\* eval_frame's loop over get(bboxes), bboxes being the frame whose
\* detections set was given
DeepSORTMapper_get_frame(bboxes) ==
    /\ slast.op = "set"
    /\ slast.raised = "none"
    /\ Len(bboxes) = slast.D
    /\ slast' = [bboxes |-> bboxes, get |-> get_rows(bboxes, tracks, track_ids),
                  at |-> [tracks |-> tracks, ids |-> track_ids,
                          next_id |-> next_id, samples |-> samples]]
                 @@ [slast EXCEPT !.op = "get"]
    /\ UNCHANGED <<tracks, next_id, track_ids, n_init, max_age, nn_budget,
                   samples, created, retired, further>>
    /\ UNCHANGED mapperVars
    /\ UNCHANGED engine

\* MOT16_SORT.eval_frame with do_mapping = False: only the loop over
\* get(bboxes) runs; the driver hands it the frame it keeps at pos, the one
\* of the last mapped call
eval_frame_unmapped(bboxes) ==
    /\ slast.op \in {"get", "unmapped"}
    /\ slast.get.raised = "none"
    /\ Labels(bboxes) = Labels(slast.bboxes)
    /\ slast' = [unmapped |-> get_rows(bboxes, tracks, track_ids),
                  at |-> [tracks |-> tracks, ids |-> track_ids,
                          next_id |-> next_id, samples |-> samples]]
                 @@ [slast EXCEPT !.op = "unmapped"]
    /\ UNCHANGED <<tracks, next_id, track_ids, n_init, max_age, nn_budget,
                   samples, created, retired, further>>
    /\ UNCHANGED mapperVars
    /\ UNCHANGED engine

\* the caller goes on to the next frame: the call's record is dropped
set_return ==
    /\ slast.op \in {"set", "get", "unmapped"}
    /\ slast' = [op |-> "idle"]
    /\ UNCHANGED <<tracks, next_id, track_ids, n_init, max_age, nn_budget,
                   samples, created, retired, further>>
    /\ UNCHANGED mapperVars
    /\ UNCHANGED engine

SortNext ==
    \/ \E D \in 0..MaxDet : DeepSORTMapper_set(D)
    \/ \E bboxes \in SortFrames : DeepSORTMapper_get_frame(bboxes)
    \/ set_return

SortSpec == SortInit /\ [][SortNext]_vars

(***************************************************************************)
(* The DeepSORTMapper built with a small nn_budget, so that galleries fill *)
(***************************************************************************)
GalleryInit ==
    /\ tracks = <<>>
    /\ next_id = 1
    /\ track_ids = <<>>
    /\ n_init \in 1..MaxNInit
    /\ max_age = 1
    /\ nn_budget \in 1..MaxBudget
    /\ samples = <<>>
    /\ created = <<>>
    /\ retired = {}
    /\ further = [i \in 1..MaxTrackId |-> 0]
    /\ slast = [op |-> "idle"]
    /\ id_count = 1
    /\ ids = <<>>
    /\ prev_bboxes = <<>>
    /\ issued = <<>>
    /\ last = [op |-> "idle"]
    /\ presented = {}
    /\ ever_presented = {}
    /\ any_below = FALSE
    /\ dets_seen = 0
    /\ uses = [i \in 1..MaxId |-> 0]
    /\ chain_broken = TRUE
    /\ ended = {}
    /\ given = <<>>
    /\ self_cost_thresh = cost_thresh
    /\ engine = "DeepSORTMapper"

GallerySpec == GalleryInit /\ [][SortNext]_vars

(***************************************************************************)
(* The DeepSORTMapper built with n_init = 1, where every matched track is  *)
(* Confirmed and the cascade has the most to do                            *)
(***************************************************************************)
CascadeInit ==
    /\ tracks = <<>>
    /\ next_id = 1
    /\ track_ids = <<>>
    /\ n_init = 1
    /\ max_age \in 0..MaxAge
    /\ nn_budget = 100
    /\ samples = <<>>
    /\ created = <<>>
    /\ retired = {}
    /\ further = [i \in 1..MaxTrackId |-> 0]
    /\ slast = [op |-> "idle"]
    /\ id_count = 1
    /\ ids = <<>>
    /\ prev_bboxes = <<>>
    /\ issued = <<>>
    /\ last = [op |-> "idle"]
    /\ presented = {}
    /\ ever_presented = {}
    /\ any_below = FALSE
    /\ dets_seen = 0
    /\ uses = [i \in 1..MaxId |-> 0]
    /\ chain_broken = TRUE
    /\ ended = {}
    /\ given = <<>>
    /\ self_cost_thresh = cost_thresh
    /\ engine = "DeepSORTMapper"

CascadeSpec == CascadeInit /\ [][SortNext]_vars

(***************************************************************************)
(* A run builds one of the two engines: eval_mot16 a Mapper, and           *)
(* eval_mot16_sort a MOT16_SORT                                            *)
(***************************************************************************)
EnginesInit ==
    /\ engine \in {"Mapper", "DeepSORTMapper"}
    /\ tracks = <<>>
    /\ next_id = 1
    /\ track_ids = <<>>
    /\ n_init \in IF engine = "Mapper" THEN {3} ELSE 1..MaxNInit
    /\ max_age \in IF engine = "Mapper" THEN {30} ELSE 0..MaxAge
    /\ nn_budget = 100
    /\ samples = <<>>
    /\ created = <<>>
    /\ retired = {}
    /\ further = [i \in 1..MaxTrackId |-> 0]
    /\ slast = [op |-> "idle"]
    /\ id_count = 1
    /\ ids = <<>>
    /\ prev_bboxes = <<>>
    /\ issued = <<>>
    /\ last = [op |-> "idle"]
    /\ presented = {}
    /\ ever_presented = {}
    /\ any_below = FALSE
    /\ dets_seen = 0
    /\ uses = [i \in 1..MaxId |-> 0]
    /\ chain_broken = TRUE
    /\ ended = {}
    /\ given = <<>>
    /\ self_cost_thresh = cost_thresh

\* the DeepSORTMapper is given lists of fewer than MaxDet detections here
EnginesNext ==
    \/ engine = "Mapper" /\ MapperNext
    \/ /\ engine = "DeepSORTMapper"
       /\ \/ \E D \in 0..(MaxDet - 1) : DeepSORTMapper_set(D)
          \/ \E bboxes \in SortFrames : DeepSORTMapper_get_frame(bboxes)
          \/ set_return

EnginesSpec == EnginesInit /\ [][EnginesNext]_vars

(***************************************************************************)
(* The frame loops of eval_mot16 and eval_mot16_sort: a frame is mapped,   *)
(* or it is not and eval_frame is given the frame kept at pos, the one of  *)
(* the last mapped call, whose boxes draw_p_frame has moved                *)
(***************************************************************************)
DriversInit ==
    /\ engine \in {"Mapper", "DeepSORTMapper"}
    /\ tracks = <<>>
    /\ next_id = 1
    /\ track_ids = <<>>
    /\ n_init \in IF engine = "Mapper" THEN {3} ELSE 1..MaxNInit
    /\ max_age \in IF engine = "Mapper" THEN {30} ELSE {1}
    /\ nn_budget = 100
    /\ samples = <<>>
    /\ created = <<>>
    /\ retired = {}
    /\ further = [i \in 1..MaxTrackId |-> 0]
    /\ slast = [op |-> "idle"]
    /\ id_count = 1
    /\ ids = <<>>
    /\ prev_bboxes = <<>>
    /\ issued = <<>>
    /\ last = [op |-> "idle"]
    /\ presented = {}
    /\ ever_presented = {}
    /\ any_below = FALSE
    /\ dets_seen = 0
    /\ uses = [i \in 1..MaxId |-> 0]
    /\ chain_broken = TRUE
    /\ ended = {}
    /\ given = <<>>
    /\ self_cost_thresh = cost_thresh

\* the frames bboxes[pos] can be after draw_p_frame: the rows of the frame,
\* boxes moved
Moved(frame) ==
    {f \in Frames : Len(f) = Len(frame)
                     /\ \A i \in DOMAIN f : f[i].Index = frame[i].Index}

DriversNext ==
    \/ /\ engine = "Mapper"
       /\ \/ \E bboxes \in Frames : eval_frame(bboxes, TRUE)
          \/ \E bboxes \in Moved(prev_bboxes) : eval_frame(bboxes, FALSE)
          \/ next_frame
    \/ /\ engine = "DeepSORTMapper"
       /\ \/ \E D \in 0..MaxDet : DeepSORTMapper_set(D)
          \/ \E bboxes \in SortFrames : DeepSORTMapper_get_frame(bboxes)
          \/ \E bboxes \in SortFrames : eval_frame_unmapped(bboxes)
          \/ set_return

DriversSpec == DriversInit /\ [][DriversNext]_vars


(***************************************************************************)
(* The solver on its own: Mapper.set hands it one cost matrix              *)
(***************************************************************************)
\* the example of the solver's description
ExampleCost ==
    LET rows == << <<4, 1, 3>>, <<2, 0, 5>>, <<3, 2, 2>> >>
    IN  [rc \in (0..2) \X (0..2) |-> rows[rc[1] + 1][rc[2] + 1]]

\* the R x C cost matrices with costs 0 and 1, and the example
CostMatrices(R, C) ==
    [(0..(R - 1)) \X (0..(C - 1)) -> {0, 1}]
        \cup (IF R = 3 /\ C = 3 THEN {ExampleCost} ELSE {})

\* row_idx, col_idx = sp.optimize.linear_sum_assignment(cost_matrix)
solve(cost_matrix, R, C) ==
    /\ last.op = "idle"
    /\ \E sol \in linear_sum_assignment(cost_matrix, R, C) :
          last' = [op |-> "solve", cost_matrix |-> cost_matrix,
                   R |-> R, C |-> C, sol |-> sol]
    /\ UNCHANGED <<id_count, ids, prev_bboxes, issued, presented,
                   ever_presented, any_below, dets_seen, uses, chain_broken,
                   ended, given, self_cost_thresh>>
    /\ UNCHANGED sortVars
    /\ UNCHANGED engine

solve_return ==
    /\ last.op = "solve"
    /\ last' = [op |-> "idle"]
    /\ UNCHANGED <<id_count, ids, prev_bboxes, issued, presented,
                   ever_presented, any_below, dets_seen, uses, chain_broken,
                   ended, given, self_cost_thresh>>
    /\ UNCHANGED sortVars
    /\ UNCHANGED engine

SolverInit ==
    /\ id_count = 1
    /\ ids = <<>>
    /\ prev_bboxes = <<>>
    /\ issued = <<>>
    /\ last = [op |-> "idle"]
    /\ presented = {}
    /\ ever_presented = {}
    /\ any_below = FALSE
    /\ dets_seen = 0
    /\ uses = [i \in 1..MaxId |-> 0]
    /\ chain_broken = TRUE
    /\ ended = {}
    /\ given = <<>>
    /\ self_cost_thresh = cost_thresh
    /\ tracks = <<>>
    /\ next_id = 1
    /\ track_ids = <<>>
    /\ n_init = 3
    /\ max_age = 30
    /\ nn_budget = 100
    /\ samples = <<>>
    /\ created = <<>>
    /\ retired = {}
    /\ further = [i \in 1..MaxTrackId |-> 0]
    /\ slast = [op |-> "idle"]
    /\ engine = "Mapper"

\* the matrices have up to MaxDim rows and columns and up to MaxCells cells
SolverNext ==
    \/ \E R \in 0..MaxDim, C \in 0..MaxDim :
          /\ R * C <= MaxCells
          /\ \E cost_matrix \in CostMatrices(R, C) :
                solve(cost_matrix, R, C)
    \/ solve_return

SolverSpec == SolverInit /\ [][SolverNext]_vars

(***************************************************************************)
(* Claims on the Mapper                                                    *)
(***************************************************************************)
Called == last.op = "eval_frame"

SetReturned == Called /\ last.set_returned

\* the solver pairs of the last set() call that hold the k-th row of next
PairsOf(k) == {i \in DOMAIN last.sol.col_idx : last.sol.col_idx[i] = k - 1}

\* the k-th row of next is paired with a cost under the threshold
Inherits(k) ==
    \E i \in PairsOf(k) :
        PairCost(last.next, last.prev, last.sol, i) < cost_thresh * 10000

\* the identity the previous detection paired with the k-th row held
HeldBy(k) ==
    LET i == CHOOSE i \in PairsOf(k) : TRUE
    IN  last.before[last.prev[last.sol.row_idx[i] + 1].Index]

\* C1: the counter starts at 1, the fresh identities are handed out in
\* strictly increasing order (so none twice), and every identity in the
\* table is smaller than the counter.
C1_FreshIdentitiesIncrease ==
    /\ Len(issued) = 0 => id_count = 1
    /\ Len(issued) > 0 => issued[1] = 1
    /\ \A i \in DOMAIN issued : \A j \in DOMAIN issued :
          i < j => issued[i] < issued[j]
    /\ \A i \in DOMAIN issued : issued[i] < id_count
    /\ \A l \in DOMAIN ids : ids[l] < id_count

C1_Witness ==
    /\ Len(issued) >= 3
    /\ Cardinality(DOMAIN ids) >= 2

\* C3: in a set() call that returned, a detection of next has the identity
\* of the previous detection it is paired with exactly when that pair costs
\* less than cost_thresh; every other detection has a fresh identity.
C3_InheritIffPairedBelowThresh ==
    SetReturned =>
        \A k \in DOMAIN last.next :
            LET d == last.next[k].Index
            IN  /\ d \in DOMAIN last.id_map
                /\ ids[d] = last.id_map[d]
                /\ Inherits(k) =>
                      /\ last.id_map[d] = HeldBy(k)
                      /\ last.id_map[d] \notin Range(last.fresh)
                /\ ~Inherits(k) =>
                      /\ last.id_map[d] \in Range(last.fresh)
                      /\ last.id_map[d] \notin Range(last.before)

\* a call with one pair under the threshold and one pair exactly at it
C3_Witness ==
    /\ SetReturned
    /\ \E k \in DOMAIN last.next : Inherits(k)
    /\ \E k \in DOMAIN last.next : \E i \in PairsOf(k) :
          PairCost(last.next, last.prev, last.sol, i) = cost_thresh * 10000

\* C4: once set() has returned, get() gives an identity for every row of
\* the frame, so the mapped frame is reported whole.
C4_EveryDetectionReported ==
    SetReturned =>
        /\ last.raised = "none"
        /\ Len(last.gets) = Len(last.next)
        /\ \A k \in DOMAIN last.gets :
              /\ ~last.gets[k].raised
              /\ last.gets[k].Index = last.next[k].Index
              /\ last.gets[k].obj_id = ids[last.next[k].Index]
              /\ last.gets[k].obj_id \in Range(issued)

C4_Witness ==
    /\ SetReturned
    /\ Len(last.next) = 2
    /\ last.prev # <<>>

\* C5 as stated: get() of a row label that the most recent set() did not
\* hold raises KeyError.
C5_GetFailsOutsideLastSet ==
    Called =>
        \A k \in DOMAIN last.gets :
            last.gets[k].Index \notin presented => last.gets[k].raised

\* C5 as amended: get() raises KeyError exactly for the row labels that no
\* set() call that returned has held; a label held by an earlier call still
\* answers with the identity that call stored.
C5_GetFailsIffNeverPresented ==
    Called =>
        \A k \in DOMAIN last.gets :
            last.gets[k].raised <=> last.gets[k].Index \notin ever_presented

\* a stale answer, and a KeyError
C5_Witness ==
    /\ Called
    /\ \E k \in DOMAIN last.gets :
          /\ ~last.gets[k].raised
          /\ last.gets[k].Index \notin presented
          /\ last.gets[k].Index \in ever_presented

C5_WitnessKeyError ==
    /\ Called
    /\ ever_presented # {}
    /\ \E k \in DOMAIN last.gets : last.gets[k].raised

\* C6: while no solver pair has been under the threshold, the identities
\* given out are as many as the detections mapped, each given once.
C6_OneIdentityPerDetection ==
    ~any_below =>
        /\ Cardinality({i \in 1..MaxId : uses[i] > 0}) = dets_seen
        /\ Len(issued) = dets_seen
        /\ \A i \in 1..MaxId : uses[i] = IF i \in Range(issued) THEN 1 ELSE 0

\* three detections over frames whose solver pairs are all at the threshold
C6_Witness ==
    /\ ~any_below
    /\ dets_seen >= 3
    /\ SetReturned
    /\ last.sol.col_idx # <<>>

\* the cost of the pair of boxes of C7, worked out once
C7_PairCost ==
    /\ cost_thresh = 40000
    /\ lin_cost(BoxA2, BoxA) = sqrt(29) * sqrt(10)
    /\ lin_cost(BoxA2, BoxA) < cost_thresh * 10000

\* C7: box (100,100,300,200) followed by box (105,102,302,201), one
\* detection each, keeps the identity: the pair's cost, sqrt(29) * sqrt(10),
\* is under cost_thresh = 40000.
C7_ContinuityExample ==
    /\ C7_PairCost
    /\ (/\ Called
        /\ last.do_mapping
        /\ last.prev = DataFrame(<<BoxA>>)
        /\ last.next = DataFrame(<<BoxA2>>))
       => /\ last.set_returned
          /\ last.raised = "none"
          /\ last.fresh = <<>>
          /\ ids[0] = last.before[0]
          /\ last.gets[1].obj_id = last.before[0]

C7_Witness ==
    /\ Called
    /\ last.do_mapping
    /\ last.prev = DataFrame(<<BoxA>>)
    /\ last.next = DataFrame(<<BoxA2>>)

(***************************************************************************)
(* Claims on the DeepSORTMapper                                            *)
(***************************************************************************)
SetCalled == slast.op = "set"

\* the track at place k of the last call was in none of its matches
Missed(k) == \A i \in DOMAIN slast.matches : slast.matches[i][1] # k

\* the track at place k of the last call is no longer in the live set
Gone(k) == slast.entry[k].track_id \notin TrackIds(tracks)

\* what get() yields in the present state
Yielded == DeepSORTMapper_get(1, tracks, track_ids)

\* C2: over any sequence of set() calls no two tracks ever created carry the
\* same identity: identities are handed out in strictly increasing order
\* starting at 1, and the identity of a deleted track is never given to a
\* later track.
C2_TrackIdentitiesNeverReused ==
    /\ created # <<>> => created[1] = 1
    /\ \A i \in DOMAIN created : \A j \in DOMAIN created :
          i < j => created[i] < created[j]
    /\ \A j \in DOMAIN tracks : \A k \in DOMAIN tracks :
          j # k => tracks[j].track_id # tracks[k].track_id
    /\ TrackIds(tracks) \subseteq Range(created)
    /\ retired \subseteq Range(created)
    /\ retired \cap TrackIds(tracks) = {}
    /\ \A i \in DOMAIN created : created[i] < next_id

\* a track was deleted in an earlier call and this call created a new track
C2_Witness ==
    /\ SetCalled
    /\ \E id \in retired : id \notin TrackIds(slast.entry)
    /\ slast.unmatched_detections # <<>>
    /\ Len(created) >= 2

\* C8 as stated: for every n_init >= 1 a track is Tentative at creation and
\* through exactly n_init-1 further matched updates, and Confirmed from then on.
C8_TentativeForNInitMinusOne ==
    \A k \in DOMAIN tracks :
        /\ tracks[k].state \in {"Tentative", "Confirmed"}
        /\ tracks[k].state = "Tentative"
               <=> further[tracks[k].track_id] < n_init - 1

\* C8: a track created from an unmatched detection is Tentative; for
\* n_init >= 2 it stays Tentative for exactly n_init-1 further matched updates
\* and is Confirmed by the last of them; for n_init = 1 it is still created
\* Tentative and is Confirmed by its first matched update.
C8_TentativeUntilNInitHits ==
    \A k \in DOMAIN tracks :
        /\ tracks[k].state \in {"Tentative", "Confirmed"}
        /\ tracks[k].state = "Tentative"
               <=> further[tracks[k].track_id]
                       < (IF n_init = 1 THEN 1 ELSE n_init - 1)
        /\ tracks[k].hits = further[tracks[k].track_id] + 1

\* with n_init = 3 one track was Confirmed by this call, its second further
\* match, next to a track that is still Tentative
C8_Witness ==
    /\ SetCalled
    /\ n_init = 3
    /\ \E k \in DOMAIN slast.entry :
          /\ slast.entry[k].state = "Tentative"
          /\ \E j \in DOMAIN tracks :
                /\ tracks[j].track_id = slast.entry[k].track_id
                /\ is_confirmed(tracks[j])
                /\ further[tracks[j].track_id] = 2
    /\ \E j \in DOMAIN tracks : tracks[j].state = "Tentative"

\* C9: a Tentative track that is unmatched in an update() is Deleted and
\* removed from the live set in that same update, and there is no recovery:
\* its identity is never again bound to a detection nor yielded by get().
C9_TentativeMissDeletes ==
    /\ SetCalled =>
          \A k \in DOMAIN slast.entry :
              (slast.entry[k].state = "Tentative" /\ Missed(k))
              => (Gone(k) /\ slast.entry[k].track_id \in retired)
    /\ \A id \in retired :
          /\ id \notin TrackIds(tracks)
          /\ id \notin DOMAIN track_ids
          /\ \A i \in DOMAIN Yielded : Yielded[i].track_id # id

\* a Tentative track was missed by a call whose only detection went to a
\* new track instead
C9_Witness ==
    /\ SetCalled
    /\ slast.D = 1
    /\ slast.unmatched_detections = <<0>>
    /\ \E k \in DOMAIN slast.entry :
          slast.entry[k].state = "Tentative" /\ Missed(k) /\ Gone(k)

\* C10 as stated: a Confirmed track is deleted by the update() in which it
\* is unmatched with time_since_update > max_age and by no other, and a
\* Confirmed track that enters update() with time_since_update = max_age+1
\* is deleted by it.
C10_ExpiryAtMaxAgePlusOne ==
    SetCalled =>
        \A k \in DOMAIN slast.entry :
            slast.entry[k].state = "Confirmed" =>
                /\ Gone(k) <=> (Missed(k) /\ slast.entry[k].time_since_update
                                                > max_age)
                /\ slast.entry[k].time_since_update = max_age + 1 => Gone(k)

\* C10: a Confirmed track is deleted by the update() in which it is
\* unmatched with time_since_update > max_age and by no other; one that
\* enters update() with time_since_update = max_age+1 is deleted by it when
\* it is unmatched, which for max_age >= 1 it always is.
C10_ConfirmedExpiry ==
    SetCalled =>
        \A k \in DOMAIN slast.entry :
            slast.entry[k].state = "Confirmed" =>
                /\ Gone(k) <=> (Missed(k) /\ slast.entry[k].time_since_update
                                                > max_age)
                /\ (max_age >= 1
                    /\ slast.entry[k].time_since_update = max_age + 1)
                   => (Missed(k) /\ Gone(k))

\* with max_age >= 1 one Confirmed track expired in this call while another
\* Confirmed track, missed with time_since_update <= max_age, stayed
C10_Witness ==
    /\ SetCalled
    /\ max_age >= 1
    /\ \E k \in DOMAIN slast.entry :
          /\ slast.entry[k].state = "Confirmed"
          /\ slast.entry[k].time_since_update = max_age + 1
          /\ Gone(k)
    /\ \E k \in DOMAIN slast.entry :
          /\ slast.entry[k].state = "Confirmed"
          /\ Missed(k)
          /\ slast.entry[k].time_since_update <= max_age
          /\ ~Gone(k)

\* the live track that the track at place k of the last call has become
After(k) == CHOOSE t \in Range(tracks) : t.track_id = slast.entry[k].track_id

\* C11: each set() call increases the time_since_update of every live track
\* by exactly 1 in its predict step, before matching; the value is set back
\* to 0 only when the track is matched and updated in that call, and a track
\* that is unmatched keeps the incremented value.
C11_TimeSinceUpdate ==
    SetCalled =>
        /\ Len(slast.entry) = Len(slast.before)
        /\ \A k \in DOMAIN slast.before :
              /\ slast.entry[k].track_id = slast.before[k].track_id
              /\ slast.entry[k].time_since_update
                     = slast.before[k].time_since_update + 1
              /\ ~Gone(k) =>
                    After(k).time_since_update
                        = IF Missed(k)
                          THEN slast.before[k].time_since_update + 1
                          ELSE 0
              /\ ~Missed(k) => ~Gone(k)
        /\ \A j \in DOMAIN tracks :
              tracks[j].time_since_update = 0 =>
                  \/ tracks[j].track_id \notin TrackIds(slast.before)
                  \/ \E k \in DOMAIN slast.before :
                        /\ slast.before[k].track_id = tracks[j].track_id
                        /\ ~Missed(k)

\* one track was matched and is back at 0 while another, missed for the
\* second time in a row, went from 1 to 2
C11_Witness ==
    /\ SetCalled
    /\ \E k \in DOMAIN slast.before :
          /\ ~Missed(k)
          /\ After(k).time_since_update = 0
    /\ \E k \in DOMAIN slast.before :
          /\ Missed(k) /\ ~Gone(k)
          /\ slast.before[k].time_since_update = 1
          /\ After(k).time_since_update = 2

(***************************************************************************)
(* C12                                                                     *)
(***************************************************************************)
GetCalled == slast.op = "get"

\* the live tracks get is to yield
Current == {t \in Range(tracks) : is_confirmed(t) /\ t.time_since_update = 0}

\* the positions in the frame of the detections the last update matched to
\* the track of this identity
MatchedTo(id) ==
    {slast.matches[j][2] : j \in {j \in DOMAIN slast.matches :
        slast.entry[slast.matches[j][1]].track_id = id}}

\* C12 (part): get looks at exactly the Confirmed live tracks with
\* time_since_update = 0, each once, each matched by the last update, and
\* takes for each the index of the detection it was matched to
C12_GetSelectsMatchedTracks ==
    GetCalled =>
        LET ys == DeepSORTMapper_get(1, tracks, track_ids)
        IN  /\ \A i \in DOMAIN ys : ~ys[i].raised
            /\ {ys[i].track_id : i \in DOMAIN ys}
                   = {t.track_id : t \in Current}
            /\ \A i \in DOMAIN ys : \A j \in DOMAIN ys :
                   ys[i].track_id = ys[j].track_id => i = j
            /\ \A i \in DOMAIN ys :
                   MatchedTo(ys[i].track_id) = {ys[i].bbox_idx}

\* C12: after any sequence of set calls, get yields exactly the live tracks
\* that are Confirmed with time_since_update = 0, each once, each paired
\* with the bounding box of the detection it was matched to in the most
\* recent update; no Tentative, unmatched or deleted track is yielded
C12_GetYieldsMatchedBoxes ==
    GetCalled =>
        LET ys == slast.get.yields
        IN  /\ slast.get.raised = "none"
            /\ {ys[i].track_id : i \in DOMAIN ys}
                   = {t.track_id : t \in Current}
            /\ \A i \in DOMAIN ys : \A j \in DOMAIN ys :
                   ys[i].track_id = ys[j].track_id => i = j
            /\ \A i \in DOMAIN ys :
                   \E d \in MatchedTo(ys[i].track_id) :
                       ys[i].bbox = slast.bboxes[d + 1]

\* a Confirmed track matched to the only detection of a filtered frame
C12_Witness ==
    /\ GetCalled
    /\ slast.D = 1
    /\ Labels(slast.bboxes) = {1}
    /\ \E t \in Current : MatchedTo(t.track_id) = {0}

(***************************************************************************)
(* C13                                                                     *)
(***************************************************************************)
\* the detections the last update matched to the track at place k
MatchedAt(k) ==
    {slast.matches[i][2] : i \in {i \in DOMAIN slast.matches :
                                     slast.matches[i][1] = k}}

\* the track at place k was Confirmed and had missed at least one frame
\* when the last update began
Reacquirable(k) ==
    /\ is_confirmed(slast.entry[k])
    /\ slast.entry[k].time_since_update >= 2

\* the track at place k was given costs by a cascade bucket, or the buckets
\* of smaller time_since_update had taken every detection before its turn
Offered(k) ==
    \/ \E d \in 0..(slast.D - 1) : <<k, d>> \in DOMAIN slast.app_cost
    \/ \A d \in 0..(slast.D - 1) :
           \E i \in DOMAIN slast.matches_a :
               /\ slast.matches_a[i][2] = d
               /\ slast.entry[slast.matches_a[i][1]].time_since_update
                      < slast.entry[k].time_since_update

\* C13: a Confirmed track that was unmatched for some frames and is matched
\* again keeps its identity: the detection is bound to the same track_id and
\* no fresh identity is issued for it; a miss that brings the gap to fewer
\* than max_age frames leaves the track live, and a track with such a gap is
\* offered to the matching
C13_ReacquiredKeepsIdentity ==
    SetCalled =>
        \A k \in DOMAIN slast.entry :
            is_confirmed(slast.entry[k]) =>
                LET id == slast.entry[k].track_id
                    gap == slast.entry[k].time_since_update - 1
                IN  /\ (Reacquirable(k) /\ ~Missed(k)) =>
                           /\ ~Gone(k)
                           /\ is_confirmed(After(k))
                           /\ After(k).time_since_update = 0
                           /\ id \in DOMAIN track_ids
                           /\ MatchedAt(k) = {track_ids[id]}
                           /\ \A j \in DOMAIN track_ids :
                                  track_ids[j] = track_ids[id] => j = id
                           /\ track_ids[id] \notin
                                  Range(slast.unmatched_detections)
                           /\ Len(tracks) - Len(slast.unmatched_detections)
                                  <= Len(slast.entry)
                    /\ (Missed(k) /\ gap + 1 < max_age) =>
                           /\ ~Gone(k)
                           /\ is_confirmed(After(k))
                           /\ After(k).time_since_update = gap + 1
                    /\ (gap >= 1 /\ gap < max_age) => Offered(k)

\* a Confirmed track is matched again after a missed frame
C13_Witness ==
    /\ SetCalled
    /\ \E k \in DOMAIN slast.entry :
           /\ Reacquirable(k)
           /\ ~Missed(k)
           /\ slast.unmatched_detections = <<>>
           /\ track_ids[slast.entry[k].track_id] \in MatchedAt(k)

(***************************************************************************)
(* C14                                                                     *)
(***************************************************************************)
\* the last update was given detections D1, D2 (indices 0, 1) with one live
\* track, Confirmed; no appearance cost passed the gate, and the IOU costs,
\* where the update read them, are 0.1 for D1 and 1.0 for D2
OneTrackTwoDetections ==
    /\ SetCalled
    /\ slast.D = 2
    /\ Len(slast.entry) = 1
    /\ is_confirmed(slast.entry[1])
    /\ \A c \in DOMAIN slast.app_cost : slast.app_cost[c] = INFTY_COST
    /\ \A c \in DOMAIN slast.iou_cost :
           slast.iou_cost[c] = IF c[2] = 0 THEN 1 ELSE 10

\* the track is matched to D1 by the IOU stage and D2 gets the one new track
MatchedByIouOneNew ==
    /\ slast.matches_a = <<>>
    /\ slast.matches = << <<1, 0>> >>
    /\ slast.unmatched_tracks = <<>>
    /\ slast.unmatched_detections = <<1>>
    /\ Len(tracks) = 2
    /\ tracks[1].track_id = slast.entry[1].track_id
    /\ is_confirmed(tracks[1])
    /\ tracks[1].time_since_update = 0
    /\ tracks[2].state = "Tentative"
    /\ tracks[2].hits = 1
    /\ tracks[2].track_id \notin TrackIds(slast.before)
    /\ track_ids = (tracks[1].track_id :> 0) @@ (tracks[2].track_id :> 1)

\* C14: with one Confirmed track in the live set overlapping D1 at IOU 0.9
\* and D2 at IOU 0.0 and no feature vectors, update([D1, D2]) matches the
\* track to D1 through the IOU stage and creates exactly one new Tentative
\* track, for D2
C14_IouFallbackEndToEnd == OneTrackTwoDetections => MatchedByIouOneNew

\* C14 for a track that was matched in the frame before (time_since_update
\* is 1 once predicted); a track that missed that frame is not offered to
\* the IOU stage and both detections get new tracks
C14_IouFallbackAfterMatch ==
    /\ (OneTrackTwoDetections /\ slast.entry[1].time_since_update = 1)
           => MatchedByIouOneNew
    /\ (OneTrackTwoDetections /\ slast.entry[1].time_since_update > 1) =>
           /\ slast.matches = <<>>
           /\ slast.unmatched_detections = <<0, 1>>

\* the scenario, with a track matched in the frame before
C14_Witness ==
    /\ OneTrackTwoDetections
    /\ slast.entry[1].time_since_update = 1
    /\ slast.iou_cost = (<<1, 0>> :> 1) @@ (<<1, 1>> :> 10)
    /\ MatchedByIouOneNew

(***************************************************************************)
(* C15                                                                     *)
(***************************************************************************)
\* Mapper.set(next, prev) was called and the call is on record
MapperSetCalled == last.op = "eval_frame" /\ last.do_mapping

\* Mapper.set with an empty next: nothing raised, counter and table as before
EmptyNextKeepsAll ==
    (MapperSetCalled /\ last.next = <<>>) =>
        /\ last.raised = "none"
        /\ last.set_returned
        /\ last.fresh = <<>>
        /\ id_count = last.count
        /\ ids = last.before

\* Mapper.set with an empty prev: nothing raised, every detection of next
\* has an identity of its own that the counter had not given out before
EmptyPrevAllFresh ==
    (MapperSetCalled /\ last.prev = <<>>) =>
        /\ last.raised = "none"
        /\ last.set_returned
        /\ DOMAIN last.id_map = Labels(last.next)
        /\ Len(last.fresh) = Len(last.next)
        /\ id_count = last.count + Len(last.next)
        /\ \A l \in DOMAIN last.id_map :
               /\ last.id_map[l] >= last.count
               /\ last.id_map[l] \in Range(last.fresh)
               /\ ids[l] = last.id_map[l]
        /\ \A l \in DOMAIN last.id_map : \A k \in DOMAIN last.id_map :
               last.id_map[l] = last.id_map[k] => l = k

\* DeepSORTMapper.update([]): nothing raised, every live track marked
\* missed, no track created
EmptyUpdateMissesAll ==
    (SetCalled /\ slast.D = 0) =>
        /\ slast.raised = "none"
        /\ slast.matches = <<>>
        /\ Range(slast.unmatched_tracks) = DOMAIN slast.entry
        /\ \A k \in DOMAIN slast.entry :
               IF is_deleted(mark_missed(slast.entry[k]))
               THEN Gone(k)
               ELSE ~Gone(k) /\ After(k) = mark_missed(slast.entry[k])
        /\ next_id = slast.count
        /\ TrackIds(tracks) \subseteq TrackIds(slast.entry)
        /\ Len(tracks) <= Len(slast.entry)

\* C15: an empty detection set is accepted without error by both engines:
\* Mapper.set with an empty next leaves the counter and the table unchanged,
\* with an empty prev it gives every detection of next a fresh identity, and
\* DeepSORTMapper.update([]) marks every live track missed and creates none
C15_EmptyDetectionSets ==
    /\ EmptyNextKeepsAll
    /\ EmptyPrevAllFresh
    /\ EmptyUpdateMissesAll

\* update([]) with a Confirmed track live, which stays live
C15_Witness ==
    /\ SetCalled
    /\ slast.D = 0
    /\ \E k \in DOMAIN slast.entry :
           is_confirmed(slast.entry[k]) /\ ~Gone(k)

\* Mapper.set with an empty next and a table that binds two detections
C15_WitnessEmptyNext ==
    /\ MapperSetCalled
    /\ last.next = <<>>
    /\ Cardinality(DOMAIN last.before) >= 2

\* Mapper.set with an empty prev and two detections in next
C15_WitnessEmptyPrev ==
    /\ MapperSetCalled
    /\ last.prev = <<>>
    /\ Len(last.next) = 2

(***************************************************************************)
(* C16                                                                     *)
(***************************************************************************)
Solved == last.op = "solve"

\* the one-to-one maps from 0..n-1 into 0..m-1
Injections(n, m) ==
    {f \in [0..(n - 1) -> 0..(m - 1)] :
        \A i \in DOMAIN f : \A j \in DOMAIN f : f[i] = f[j] => i = j}

\* the cost of pairing i with f[i] for every i from k on; the smaller side
\* of the matrix is the one mapped
RECURSIVE CostOf(_, _, _, _)
CostOf(cost_matrix, f, byRow, k) ==
    IF k \notin DOMAIN f THEN 0
    ELSE (IF byRow THEN cost_matrix[<<k, f[k]>>] ELSE cost_matrix[<<f[k], k>>])
            + CostOf(cost_matrix, f, byRow, k + 1)

\* the total costs of all the ways to pair min(R, C) rows and columns
BruteForce(cost_matrix, R, C) ==
    IF R <= C
    THEN {CostOf(cost_matrix, f, TRUE, 0) : f \in Injections(R, C)}
    ELSE {CostOf(cost_matrix, f, FALSE, 0) : f \in Injections(C, R)}

\* the total cost of the pairs the solver returned
Selected ==
    LET sol == last.sol
        RECURSIVE Sum(_)
        Sum(i) == IF i > Len(sol.row_idx) THEN 0
                  ELSE last.cost_matrix[<<sol.row_idx[i], sol.col_idx[i]>>]
                          + Sum(i + 1)
    IN  Sum(1)

GalleryBefore(id) ==
    IF id \in DOMAIN slast.gallery THEN slast.gallery[id] ELSE <<>>

\* the features waiting in the track at place k, then that of the detection
\* the last call matched to it
Arrived(k) ==
    slast.entry[k].features
        \o (IF Missed(k) THEN <<>> ELSE <<slast.entry[k].hits + 1>>)

\* the track at place k is live and Confirmed after the last call
ConfirmedAfter(k) == ~Gone(k) /\ is_confirmed(After(k))

\* this gallery is made of the last entries of the old one and the arrivals
NewestOf(gallery, all) ==
    /\ Len(gallery) = Min(nn_budget, Len(all))
    /\ \A i \in DOMAIN gallery :
          gallery[i] = all[Len(all) - Len(gallery) + i]

\* C17: after any sequence of update calls the gallery of every track
\* identity holds at most nn_budget features, and a call that brings a
\* gallery more features than it has room for evicts the oldest: the gallery
\* then holds the newest nn_budget of them, in the order they arrived.
C17_GalleryBounded ==
    /\ \A id \in DOMAIN samples : Len(samples[id]) <= nn_budget
    /\ (slast.op \in {"set", "get"} /\ slast.raised = "none") =>
          \A k \in DOMAIN slast.entry :
              ConfirmedAfter(k) =>
                  /\ slast.entry[k].track_id \in DOMAIN samples
                  /\ NewestOf(samples[slast.entry[k].track_id],
                              GalleryBefore(slast.entry[k].track_id)
                                  \o Arrived(k))

\* a call gave a feature to a gallery that was full, and its oldest went
C17_Witness ==
    /\ SetCalled
    /\ slast.raised = "none"
    /\ \E k \in DOMAIN slast.entry :
          /\ ConfirmedAfter(k)
          /\ ~Missed(k)
          /\ Len(GalleryBefore(slast.entry[k].track_id)) = nn_budget
          /\ samples[slast.entry[k].track_id][1]
                 # GalleryBefore(slast.entry[k].track_id)[1]
          /\ Len(samples[slast.entry[k].track_id]) = nn_budget

(***************************************************************************)
(* Claims on the two matching stages                                       *)
(***************************************************************************)
\* the matches the IOU stage added to those of the cascade
MatchesB == SubSeq(slast.matches, Len(slast.matches_a) + 1, Len(slast.matches))

\* no match of the list has a cost at or above the threshold
AllBelow(matches, cost_matrix, threshold) ==
    \A i \in DOMAIN matches :
        /\ matches[i] \in DOMAIN cost_matrix
        /\ cost_matrix[matches[i]] < threshold
        /\ cost_matrix[matches[i]] # INFTY_COST

\* the stage was given costs for this track, each at or above the threshold
TrackShut(k, cost_matrix, threshold) ==
    /\ \E c \in DOMAIN cost_matrix : c[1] = k
    /\ \A c \in DOMAIN cost_matrix : c[1] = k => cost_matrix[c] >= threshold

\* the stage was given costs for this detection, each at or above the threshold
DetectionShut(d, cost_matrix, threshold) ==
    /\ \E c \in DOMAIN cost_matrix : c[2] = d
    /\ \A c \in DOMAIN cost_matrix : c[2] = d => cost_matrix[c] >= threshold

\* the stage left every track and detection unmatched that had no cost below
\* the threshold
ShutLeftOut(matches, left_tracks, left_detections, cost_matrix, threshold) ==
    /\ \A k \in DOMAIN slast.entry :
          TrackShut(k, cost_matrix, threshold) =>
              /\ k \in Range(left_tracks)
              /\ \A i \in DOMAIN matches : matches[i][1] # k
    /\ \A d \in 0..(slast.D - 1) :
          DetectionShut(d, cost_matrix, threshold) =>
              /\ d \in Range(left_detections)
              /\ \A i \in DOMAIN matches : matches[i][2] # d

\* C18: in both matching stages a pair whose cost is at or above the stage's
\* threshold (the appearance matching threshold in the cascade,
\* max_iou_distance in the IOU stage), or which failed the Mahalanobis gate
\* in the cascade, is never returned as a match; a track or a detection with
\* no better pair, as when that pair is the only one or the cheapest of the
\* matrix, is reported unmatched by that stage.
C18_GatedPairsNeverMatched ==
    slast.op \in {"set", "get"} =>
        /\ AllBelow(slast.matches_a, slast.app_cost, matching_threshold)
        /\ ShutLeftOut(slast.matches_a, slast.unmatched_tracks_a,
                       slast.unmatched_detections_a, slast.app_cost,
                       matching_threshold)
        /\ AllBelow(MatchesB, slast.iou_cost, max_iou_distance)
        /\ ShutLeftOut(MatchesB, slast.unmatched_tracks,
                       slast.unmatched_detections, slast.iou_cost,
                       max_iou_distance)

\* the IOU stage was given one pair, at exactly max_iou_distance: no match
C18_Witness ==
    /\ SetCalled
    /\ \E c \in DOMAIN slast.iou_cost :
          /\ DOMAIN slast.iou_cost = {c}
          /\ slast.iou_cost[c] = max_iou_distance
          /\ MatchesB = <<>>
          /\ c[1] \in Range(slast.unmatched_tracks)
          /\ c[2] \in Range(slast.unmatched_detections)

\* the cascade was given one pair, at exactly the matching threshold
C18_WitnessAppearance ==
    /\ SetCalled
    /\ \E c \in DOMAIN slast.app_cost :
          /\ DOMAIN slast.app_cost = {c}
          /\ slast.app_cost[c] = matching_threshold
          /\ slast.matches_a = <<>>
          /\ c[1] \in Range(slast.unmatched_tracks_a)
          /\ c[2] \in Range(slast.unmatched_detections_a)

\* the cascade was given one pair, which failed the Mahalanobis gate
C18_WitnessGate ==
    /\ SetCalled
    /\ \E c \in DOMAIN slast.app_cost :
          /\ DOMAIN slast.app_cost = {c}
          /\ slast.app_cost[c] = INFTY_COST
          /\ c[1] \in Range(slast.unmatched_tracks_a)
          /\ c[2] \in Range(slast.unmatched_detections_a)

\* the cheapest pair of a larger matrix is over the threshold: no match
C18_WitnessMinimum ==
    /\ SetCalled
    /\ Cardinality(DOMAIN slast.iou_cost) >= 2
    /\ \A c \in DOMAIN slast.iou_cost : slast.iou_cost[c] >= max_iou_distance
    /\ \E c \in DOMAIN slast.iou_cost : slast.iou_cost[c] > max_iou_distance
    /\ MatchesB = <<>>
    /\ Len(slast.unmatched_detections) = slast.D

\* the track at place k was in no match of the cascade
LeftByCascade(k) == \A i \in DOMAIN slast.matches_a : slast.matches_a[i][1] # k

\* the detections that were in no match of the cascade
DetectionsLeftByCascade ==
    {d \in 0..(slast.D - 1) :
        \A i \in DOMAIN slast.matches_a : slast.matches_a[i][2] # d}

\* the Confirmed track at place k was left by the cascade with a
\* time_since_update other than 1
PassedOver(k) ==
    /\ is_confirmed(slast.entry[k])
    /\ LeftByCascade(k)
    /\ slast.entry[k].time_since_update # 1

\* C19: the tracks offered to the IOU stage are exactly the tracks that are
\* not Confirmed plus the Confirmed tracks the cascade left unmatched whose
\* time_since_update is 1 after predict; a Confirmed track the cascade left
\* unmatched with any other time_since_update is reported unmatched without
\* being offered to the IOU stage; and the IOU stage is offered only the
\* detections the cascade left unmatched.
C19_IouCandidates ==
    slast.op \in {"set", "get"} =>
        /\ Range(slast.candidates) =
              {k \in DOMAIN slast.entry :
                  \/ ~is_confirmed(slast.entry[k])
                  \/ /\ LeftByCascade(k)
                     /\ slast.entry[k].time_since_update = 1}
        /\ Len(slast.candidates) = Cardinality(Range(slast.candidates))
        /\ \A k \in DOMAIN slast.entry :
              PassedOver(k) =>
                  /\ k \in Range(slast.unmatched_tracks)
                  /\ k \notin Range(slast.candidates)
                  /\ \A c \in DOMAIN slast.iou_cost : c[1] # k
                  /\ Missed(k)
        /\ DOMAIN slast.iou_cost =
              Range(slast.candidates) \X DetectionsLeftByCascade
        /\ Range(slast.unmatched_detections_a) = DetectionsLeftByCascade
        /\ \A i \in DOMAIN MatchesB :
              /\ MatchesB[i][1] \in Range(slast.candidates)
              /\ MatchesB[i][2] \in DetectionsLeftByCascade

\* a Confirmed track two frames from its last match was passed over while a
\* track that is not Confirmed was offered to the IOU stage with a detection
C19_Witness ==
    /\ SetCalled
    /\ slast.D >= 1
    /\ \E k \in DOMAIN slast.entry : PassedOver(k)
    /\ \E k \in Range(slast.candidates) : ~is_confirmed(slast.entry[k])
    /\ DOMAIN slast.iou_cost # {}

\* the cascade matched one Confirmed track; another, one frame from its last
\* match, went to the IOU stage with the detection that was left
C19_WitnessConfirmedOffered ==
    /\ SetCalled
    /\ slast.D = 2
    /\ Len(slast.matches_a) = 1
    /\ \E k \in Range(slast.candidates) :
          /\ is_confirmed(slast.entry[k])
          /\ slast.entry[k].time_since_update = 1
    /\ Cardinality(DOMAIN slast.iou_cost) = 1

\* the detection was matched by the cascade to a track of a bucket before
\* that of time_since_update t
TakenBefore(d, t) ==
    \E i \in DOMAIN slast.matches_a :
        /\ slast.matches_a[i][2] = d
        /\ slast.entry[slast.matches_a[i][1]].time_since_update < t

\* the Confirmed track at place k is in a bucket of the cascade
InBucket(k) ==
    /\ is_confirmed(slast.entry[k])
    /\ slast.entry[k].time_since_update \in 1..max_age

\* C20: the cascade takes the Confirmed tracks in buckets of ascending
\* time_since_update, 1 up to max_age; a detection matched in one bucket is
\* not available to a later one, so of two Confirmed tracks with different
\* time_since_update that could both take a single detection the one with
\* the smaller value gets it; a track whose time_since_update exceeds
\* max_age after predict is in no bucket and is not matched by the cascade.
C20_CascadeBuckets ==
    slast.op \in {"set", "get"} =>
        /\ DOMAIN slast.app_cost =
              {c \in (DOMAIN slast.entry) \X (0..(slast.D - 1)) :
                  /\ InBucket(c[1])
                  /\ ~TakenBefore(c[2], slast.entry[c[1]].time_since_update)}
        /\ \A i \in DOMAIN slast.matches_a :
              /\ InBucket(slast.matches_a[i][1])
              /\ \A j \in DOMAIN slast.matches_a :
                    i < j => slast.entry[slast.matches_a[i][1]].time_since_update
                             <= slast.entry[slast.matches_a[j][1]].time_since_update
              /\ \A k \in DOMAIN slast.entry :
                    slast.entry[k].time_since_update
                        > slast.entry[slast.matches_a[i][1]].time_since_update
                    => /\ <<k, slast.matches_a[i][2]>> \notin DOMAIN slast.app_cost
                       /\ <<k, slast.matches_a[i][2]>> \notin Range(slast.matches_a)
        /\ \A k \in DOMAIN slast.entry :
              slast.entry[k].time_since_update > max_age =>
                  /\ LeftByCascade(k)
                  /\ \A c \in DOMAIN slast.app_cost : c[1] # k

\* one detection, two Confirmed tracks in the buckets 1 and 2: the track of
\* bucket 1 took the detection, and the other was offered nothing
C20_Witness ==
    /\ SetCalled
    /\ slast.D = 1
    /\ \E k1 \in DOMAIN slast.entry : \E k2 \in DOMAIN slast.entry :
          /\ InBucket(k1)
          /\ InBucket(k2)
          /\ slast.entry[k1].time_since_update = 1
          /\ slast.entry[k2].time_since_update = 2
          /\ slast.matches_a = <<(<<k1, 0>>)>>
          /\ LeftByCascade(k2)
          /\ \A c \in DOMAIN slast.app_cost : c[1] # k2

\* a Confirmed track past max_age met a detection the cascade left unmatched
C20_WitnessPastMaxAge ==
    /\ SetCalled
    /\ max_age >= 1
    /\ \E k \in DOMAIN slast.entry :
          /\ is_confirmed(slast.entry[k])
          /\ slast.entry[k].time_since_update > max_age
    /\ slast.unmatched_detections_a # <<>>

(***************************************************************************)
(* Claims on the tracks update creates                                     *)
(***************************************************************************)
\* the live tracks the last update created
Created == {t \in Range(tracks) : t.track_id >= slast.count}

\* C21 (part): each unmatched detection creates exactly one new track, which
\* is Tentative and whose identity the identity table binds to that
\* detection; as many tracks are created as detections were unmatched, and
\* get selects none of them
C21_UnmatchedCreateTentative ==
    (slast.op \in {"set", "get"} /\ slast.raised = "none") =>
        /\ Cardinality(Created) = Len(slast.unmatched_detections)
        /\ next_id = slast.count + Len(slast.unmatched_detections)
        /\ Len(tracks) = Len(slast.entry)
                             - Cardinality({k \in DOMAIN slast.entry : Gone(k)})
                             + Len(slast.unmatched_detections)
        /\ \A i \in DOMAIN slast.unmatched_detections :
              \E t \in Created :
                  /\ t.track_id = slast.count + i - 1
                  /\ t.state = "Tentative"
                  /\ t.hits = 1
                  /\ t.time_since_update = 0
                  /\ t.track_id \in DOMAIN track_ids
                  /\ track_ids[t.track_id] = slast.unmatched_detections[i]
                  /\ \A k \in DOMAIN slast.entry :
                        slast.entry[k].track_id # t.track_id
        /\ \A t \in Created :
              \A y \in Range(DeepSORTMapper_get(1, tracks, track_ids)) :
                  y.track_id # t.track_id

\* C21: each unmatched detection creates exactly one new Tentative track
\* whose identity the identity table binds to that detection, the number of
\* tracks created equals the number of unmatched detections, and a detection
\* that created a track is not yielded by get for that frame
C21_NewTrackNotYielded ==
    /\ C21_UnmatchedCreateTentative
    /\ GetCalled =>
          \A d \in Range(slast.unmatched_detections) :
              \A y \in Range(slast.get.yields) :
                  y.bbox # slast.bboxes[d + 1]

\* get yielded, under the identity of a matched track, the row of a
\* detection that had just created a track of its own
C21_Witness ==
    /\ GetCalled
    /\ slast.D = 2
    /\ \E d \in Range(slast.unmatched_detections) :
          \E y \in Range(slast.get.yields) :
              /\ y.bbox = slast.bboxes[d + 1]
              /\ \E t \in Current : t.track_id = y.track_id
                                     /\ MatchedTo(t.track_id) # {d}

\* C22: after every update the live set holds no Deleted track, every live
\* Tentative track has time_since_update = 0 and every live Confirmed track
\* has time_since_update <= max_age.
C22_LiveSetAfterUpdate ==
    \A k \in DOMAIN tracks :
        /\ ~is_deleted(tracks[k])
        /\ tracks[k].state \in {"Tentative", "Confirmed"}
        /\ tracks[k].state = "Tentative" => tracks[k].time_since_update = 0
        /\ is_confirmed(tracks[k]) => tracks[k].time_since_update <= max_age

\* an update deleted a missed track and left a Confirmed track that has
\* missed max_age frames next to a Tentative one
C22_Witness ==
    /\ SetCalled
    /\ max_age >= 1
    /\ \E k \in DOMAIN slast.entry : Missed(k) /\ Gone(k)
    /\ \E k \in DOMAIN tracks :
          is_confirmed(tracks[k]) /\ tracks[k].time_since_update = max_age
    /\ \E k \in DOMAIN tracks : tracks[k].state = "Tentative"

(***************************************************************************)
(* Claims on the Mapper's table across frames                              *)
(***************************************************************************)
\* the last set call was given as prev a frame with the rows of the next of
\* the set call before it (none before the first)
Chained ==
    /\ last.op = "eval_frame"
    /\ last.set_returned
    /\ Labels(last.prev) = last.presented

\* C23: entries of the table for indices the current set does not touch
\* persist and are harmless: when each set call's prev is the next of the
\* set call before it, no identity a set call assigns is read from an entry
\* written by another call than the one immediately before.
C23_StaleEntriesHarmless ==
    Chained =>
        /\ \A l \in DOMAIN last.before \ Labels(last.next) :
              l \in DOMAIN ids /\ ids[l] = last.before[l]
        /\ \A i \in DOMAIN last.reads : last.reads[i] \in last.presented
        /\ \A l \in DOMAIN last.id_map :
              \/ last.id_map[l] \in Range(last.fresh)
              \/ \E i \in DOMAIN last.reads :
                    last.id_map[l] = last.before[last.reads[i]]

\* a set call inherited an identity while the table held an entry that an
\* earlier call had written and the call before had not; the entry is kept
C23_Witness ==
    /\ Chained
    /\ last.reads # <<>>
    /\ \E l \in DOMAIN last.before :
          /\ l \notin last.presented
          /\ l \notin Labels(last.next)
          /\ l \in DOMAIN ids

\* the last call ran set on a frame whose row labels are not 0..n-1
Relabelled ==
    /\ last.op = "eval_frame"
    /\ last.do_mapping
    /\ Labels(last.next) # 0..(Len(last.next) - 1)

\* C24 (part): a set call that returns has given one identity to each row of
\* next, whatever the row labels
C24_IdentityPerRowWhenBuilt ==
    (last.op = "eval_frame" /\ last.set_returned) =>
        /\ DOMAIN last.id_map = Labels(last.next)
        /\ Cardinality(Labels(last.next)) = Len(last.next)
        /\ \A l \in Labels(last.next) : l \in DOMAIN ids /\ ids[l] = last.id_map[l]

\* C24: set and get address each detection by its position in the frame: for
\* a frame of n detections whose row labels are not 0..n-1 set still builds
\* the n-column cost matrix without an out-of-range access and assigns one
\* identity to each of the n detections.
C24_SetAddressesByPosition ==
    Relabelled =>
        /\ last.raised # "IndexError"
        /\ last.set_returned
        /\ DOMAIN last.id_map = Labels(last.next)

\* set was given a filtered frame next to a frame with rows, and calc_cost
\* went out of the matrix
C24_Witness ==
    /\ Relabelled
    /\ last.prev # <<>>
    /\ Labels(last.prev) = 0..(Len(last.prev) - 1)
    /\ last.raised = "IndexError"
    /\ ids = last.before

\* C25: an identity that no detection of a mapped frame holds is retired:
\* when each set call's prev is the next of the set call before it, that
\* identity is assigned to no detection of any later frame; in particular
\* one frame without detections ends every identity there is.
C25_EndedIdentitiesStayEnded ==
    /\ (last.op = "eval_frame" /\ last.set_returned /\ ~chain_broken) =>
          /\ \A l \in DOMAIN last.id_map : last.id_map[l] \notin last.ended
          /\ last.next = <<>> => ended = 1..(id_count - 1)
    /\ ~chain_broken => ended \subseteq 1..(id_count - 1)

\* after a frame without detections had ended the identities there were, a
\* frame with detections was mapped and every identity it got is a new one
C25_Witness ==
    /\ last.op = "eval_frame"
    /\ last.set_returned
    /\ ~chain_broken
    /\ last.prev = <<>>
    /\ last.next # <<>>
    /\ last.ended # {}
    /\ last.ended = 1..(last.count - 1)
    /\ \A l \in DOMAIN last.id_map : last.id_map[l] >= last.count

\* an identity was ended by a frame that had detections, and a later frame
\* kept another identity
C25_WitnessPartial ==
    /\ last.op = "eval_frame"
    /\ last.set_returned
    /\ ~chain_broken
    /\ last.reads # <<>>
    /\ last.ended # {}
    /\ \E l \in DOMAIN last.before : last.before[l] \in last.ended

(***************************************************************************)
(* C26: the three lists _match returns split the live tracks and the       *)
(* detections it was given.                                                *)
(***************************************************************************)
\* the tracks and the detections named by the returned matches
TrackSide == {slast.matches[i][1] : i \in DOMAIN slast.matches}

DetectionSide == {slast.matches[i][2] : i \in DOMAIN slast.matches}

\* a list names nothing twice
NoRepeat(seq) == \A i, j \in DOMAIN seq : seq[i] = seq[j] => i = j

\* C26: in every call of _match, every position of the live set is either
\* the track of a match or in unmatched_tracks, never both; every position of
\* the detections is either the detection of a match or in
\* unmatched_detections, never both; no track and no detection is in two
\* matches, and neither unmatched list names a position twice
C26_MatchPartitions ==
    slast.op = "set" =>
        /\ TrackSide \cup Range(slast.unmatched_tracks) = DOMAIN slast.entry
        /\ TrackSide \cap Range(slast.unmatched_tracks) = {}
        /\ DetectionSide \cup Range(slast.unmatched_detections)
              = 0..(slast.D - 1)
        /\ DetectionSide \cap Range(slast.unmatched_detections) = {}
        /\ NoRepeat([i \in DOMAIN slast.matches |-> slast.matches[i][1]])
        /\ NoRepeat([i \in DOMAIN slast.matches |-> slast.matches[i][2]])
        /\ NoRepeat(slast.unmatched_tracks)
        /\ NoRepeat(slast.unmatched_detections)

\* a call with a match, a detection left over and an unmatched Confirmed
\* track that the IOU stage is not offered
C26_Witness ==
    /\ slast.op = "set"
    /\ Len(slast.matches) >= 1
    /\ Len(slast.unmatched_tracks) >= 1
    /\ Len(slast.unmatched_detections) >= 1
    /\ \E k \in Range(slast.unmatched_tracks) :
          /\ is_confirmed(slast.entry[k])
          /\ slast.entry[k].time_since_update > 1

\* a call whose matches come from both stages
C26_WitnessBothStages ==
    /\ slast.op = "set"
    /\ Len(slast.matches_a) >= 1
    /\ Len(slast.matches) > Len(slast.matches_a)

(***************************************************************************)
(* C27: one identity per detection within a frame                          *)
(***************************************************************************)
\* no two keys of a table hold the same identity
OneToOne(table) ==
    \A l1, l2 \in DOMAIN table : table[l1] = table[l2] => l1 = l2

\* C27: in a run where each set call's prev is the next of the set call
\* before it, the identities a set call assigns to the detections of next are
\* pairwise distinct, one for each detection.
C27_IdentitiesDistinctInFrame ==
    (last.op = "eval_frame" /\ last.set_returned /\ ~chain_broken) =>
        /\ DOMAIN last.id_map = Labels(last.next)
        /\ Cardinality(Labels(last.next)) = Len(last.next)
        /\ OneToOne(last.id_map)
        /\ Cardinality(Range(last.id_map)) = Len(last.next)

\* a frame of two detections after a frame of two: one inherits, the other
\* is given a new identity
C27_Witness ==
    /\ last.op = "eval_frame" /\ last.set_returned /\ ~chain_broken
    /\ Len(last.next) = 2
    /\ Len(last.prev) = 2
    /\ Len(last.reads) = 1
    /\ Len(last.fresh) = 1

\* both detections of a frame inherit
C27_WitnessBothInherit ==
    /\ last.op = "eval_frame" /\ last.set_returned /\ ~chain_broken
    /\ Len(last.reads) = 2

\* the same without the condition on the run, which fails: after a set call
\* whose prev is another frame two entries of the table can hold one identity
\* and a later frame inherits both
C27_NoShareInAnyRun ==
    (last.op = "eval_frame" /\ last.set_returned) => OneToOne(last.id_map)

(***************************************************************************)
(* C28: the identity table of DeepSORTMapper after update                  *)
(***************************************************************************)
\* the identities of the live tracks that the last update matched or created
UpdatedNow == {t.track_id : t \in {u \in Range(tracks) : u.time_since_update = 0}}

\* C28: after every update(detections) the identity table holds exactly the
\* identities of the live tracks with time_since_update = 0, each bound to an
\* index of the detections given, no two to the same index; a track the
\* update left unmatched has no entry, whatever the table held before.
C28_TableRebuilt ==
    /\ DOMAIN track_ids = UpdatedNow
    /\ (slast.op = "set" /\ slast.raised = "none") =>
          /\ \A id \in DOMAIN track_ids : track_ids[id] \in 0..(slast.D - 1)
          /\ OneToOne(track_ids)
          /\ Cardinality(DOMAIN track_ids) = slast.D
          /\ \A k \in Range(slast.unmatched_tracks) :
                slast.entry[k].track_id \notin DOMAIN track_ids
          /\ \A i \in DOMAIN slast.matches :
                track_ids[slast.entry[slast.matches[i][1]].track_id]
                    = slast.matches[i][2]

\* an update that matched or created a track and left unmatched a track that
\* stays alive and had an entry in the table before (the update before had
\* matched it)
C28_Witness ==
    /\ slast.op = "set" /\ slast.raised = "none"
    /\ Len(slast.matches) + Len(slast.unmatched_detections) >= 1
    /\ \E k \in Range(slast.unmatched_tracks) :
          /\ slast.entry[k].track_id \in TrackIds(tracks)
          /\ slast.before[k].time_since_update = 0

\* an update that matched one track and created another
C28_WitnessMatchedAndCreated ==
    /\ slast.op = "set" /\ slast.raised = "none"
    /\ Len(slast.matches) >= 1
    /\ Len(slast.unmatched_detections) >= 1

(***************************************************************************)
(* C29: get and the frames that are not mapped change no state             *)
(***************************************************************************)
\* the last eval_frame call of the Mapper's driver had do_mapping = False
UnmappedCall == last.op = "eval_frame" /\ ~last.do_mapping

\* C29: get() changes no state in either engine, and eval_frame() with
\* do_mapping = False changes neither the identity counter, the identity
\* table nor the track set: on every frame between two mapped frames each
\* detection is reported with the identity it was given at the most recent
\* mapped frame.
C29_UnmappedFramesChangeNothing ==
    /\ \A l \in DOMAIN given : l \in DOMAIN ids /\ ids[l] = given[l]
    /\ UnmappedCall =>
          /\ id_count = last.count
          /\ ids = last.before
          /\ last.raised = "none"
          /\ Len(last.gets) = Len(last.next)
          /\ \A k \in DOMAIN last.next :
                /\ last.gets[k].Index = last.next[k].Index
                /\ last.gets[k].obj_id = given[last.next[k].Index]
    /\ (last.op = "eval_frame" /\ last.set_returned) =>
          /\ ids = last.id_map @@ last.before
          /\ id_count = last.count + Len(last.fresh)
    /\ slast.op \in {"get", "unmapped"} =>
          /\ tracks = slast.at.tracks
          /\ track_ids = slast.at.ids
          /\ next_id = slast.at.next_id
          /\ samples = slast.at.samples
    /\ slast.op = "unmapped" => slast.unmapped = slast.get

\* a frame of two detections is not mapped, its boxes moved since the call
\* before; three identities or more have been issued
C29_Witness ==
    /\ UnmappedCall
    /\ Len(last.next) = 2
    /\ id_count > 3
    /\ last.next # last.prev

\* the same for the DeepSORTMapper: a frame that is not mapped reports a
\* Confirmed track
C29_WitnessSort ==
    /\ slast.op = "unmapped"
    /\ Len(slast.unmapped.yields) >= 1

(***************************************************************************)
(* C30: the linear cost is a product, so equal sizes cost nothing          *)
(***************************************************************************)
SamePosition(a, b) == a.left = b.left /\ a.top = b.top

SameSize(a, b) ==
    /\ a.right - a.left = b.right - b.left
    /\ a.bot - a.top = b.bot - b.top

\* the last call was set on one detection after a frame of one detection,
\* which the solver pairs
OnePair ==
    /\ last.op = "eval_frame"
    /\ last.set_returned
    /\ Len(last.next) = 1
    /\ Len(last.prev) = 1

\* C30: the linear cost of a pair of boxes is 0 whenever the position delta
\* or the size delta is zero and non-negative otherwise; so, whatever positive
\* cost_thresh the Mapper was built with, a detection that the solver pairs
\* with a previous detection of the same width and height inherits its
\* identity however far apart the two boxes are.
C30_EqualSizesInherit ==
    /\ \A p \in DOMAIN affinity :
          /\ affinity[p] >= 0
          /\ (SamePosition(p[1], p[2]) \/ SameSize(p[1], p[2])) => affinity[p] = 0
    /\ self_cost_thresh > 0
    /\ OnePair =>
          /\ last.sol.row_idx = <<0>> /\ last.sol.col_idx = <<0>>
          /\ SameSize(BoxOf(last.next[1]), BoxOf(last.prev[1])) =>
                /\ PairCost(last.next, last.prev, last.sol, 1) = 0
                /\ last.fresh = <<>>
                /\ last.id_map = (0 :> last.before[0])
                /\ ids[0] = last.before[0]

\* a Mapper with the smallest threshold: a detection 400 away from the one of
\* the frame before, of the same size, keeps the identity
C30_Witness ==
    /\ OnePair
    /\ self_cost_thresh = 1
    /\ SameSize(BoxOf(last.next[1]), BoxOf(last.prev[1]))
    /\ position_cost(convert_bbox(last.next[1]), convert_bbox(last.prev[1]))
          = 40000
    /\ last.id_map[0] = last.before[0]

\* the same distance and the default threshold: a detection of another size
\* is given a new identity
C30_WitnessOtherSize ==
    /\ OnePair
    /\ self_cost_thresh = cost_thresh
    /\ position_cost(convert_bbox(last.next[1]), convert_bbox(last.prev[1]))
          = 40000
    /\ last.fresh # <<>>
====
